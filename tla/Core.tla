-------------------------------- MODULE Core ---------------------------------
(***************************************************************************)
(* The parts of packages/core, and the event emitter, side by side: the    *)
(* lifecycle of the application, the container, the emitter and the        *)
(* request pipeline.  The variables of each are renamed where two of them  *)
(* have one name; what is promised of each is stated here under its name.  *)
(***************************************************************************)
EXTENDS Application, ContainerGraphs

CONSTANTS Emits, Patterns, Names, Matching, Priorities, MaxPerPattern, MaxId, \* of Emitter
          MaxGuards, MaxInterceptors, MaxFilters        \* of Pipeline

VARIABLES graph, scanned, exported, singletons, shared, resolving, stack, todo, asked,
          answer, remade,
          throwOnError, calm, listeners, nextId, emit, fired, refired,
          guards, interceptors, filters, parameters, validation, passed, stage, call,
          response, log

applicationVars == vars
containerVars   == <<graph, scanned, exported, singletons, shared, resolving, stack, todo,
                     asked, answer, remade>>
emitterVars     == <<throwOnError, calm, listeners, nextId, emit, fired, refired>>
pipelineVars    == <<guards, interceptors, filters, parameters, validation, passed, stage,
                     call, response, log>>

Container == INSTANCE Container
Emitter   == INSTANCE Emitter
Pipeline  == INSTANCE Pipeline WITH answer <- response

AnswersRight         == Container!AnswersRight
OneInstance          == Container!OneInstance
IsolatedUnlessHeld   == Container!IsolatedUnlessHeld
RequestIsolated      == Container!RequestIsolated
OnceFiresOnce        == Emitter!OnceFiresOnce
AnswerHasReason      == Pipeline!AnswerHasReason
==============================================================================

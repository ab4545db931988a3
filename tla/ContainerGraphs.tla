--------------------------- MODULE ContainerGraphs ---------------------------
\* What is scanned, and who asks for it: per module, the tokens it exports, and
\* those it provides with the scope and the dependencies of each.
EXTENDS Naturals, FiniteSets

CONSTANTS Modules, Tokens, Requests,
          Graphs,    \* declarations of modules that may be scanned
          MaxDepth   \* frames that fit the JavaScript stack

\* Without a request, AsyncLocalStorage holds nothing.
Outside == "outside"

\* "root" and "parent" stand for the root container and for a frame of
\* parent.resolve().
ASSUME GraphsAssumption ==
    /\ Modules \intersect {"root", "parent"} = {} /\ Outside \notin Requests
    /\ \A g \in Graphs, m \in Modules :
          /\ g[m].exports \subseteq Tokens /\ DOMAIN g[m].providers \subseteq Tokens
          /\ \A t \in DOMAIN g[m].providers : g[m].providers[t].deps \subseteq Tokens

\* The stack has room for every provider and, between any two, a frame of
\* parent.resolve(): what overflows it goes round in a circle.
ASSUME DepthAssumption ==
    LET providers == (Modules \union {"root"}) \X Tokens
    IN  /\ IsFiniteSet(providers)
        /\ MaxDepth \in Nat /\ MaxDepth >= 2 * (Cardinality(providers) + 1)
==============================================================================

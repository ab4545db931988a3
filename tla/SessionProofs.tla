---------------------------- MODULE SessionProofs ----------------------------
(***************************************************************************)
(* Proofs about Session, for any ids, clients and fields: what is signed   *)
(* out stays out.                                                          *)
(*                                                                         *)
(* An operation is what is left of its plan.  The invariant says, for each *)
(* class of plans, what its operation knows of its ids and of the record   *)
(* it has read.  A lemma for each call shows that it is kept; those that   *)
(* only read are instances of QuietStep.                                   *)
(***************************************************************************)
EXTENDS Session, SequenceTheorems, TLAPS

\* What is left of a plan, by what is still to come: a record to write, for its own
\* id or for that of a rotation, one to delete, an index to add to or to take from.
Touching == {<<"put">>, <<"get", "put">>}
Storing  == Touching \union {<<"put", "getindex", "add">>, <<"get", "put", "getindex", "add">>}
Rotating == {<<"put", "del">>, <<"get", "put", "del">>,
             <<"put", "get", "del">>, <<"get", "put", "get", "del">>,
             <<"put", "get", "getindex", "remove", "del">>,
             <<"get", "put", "get", "getindex", "remove", "del">>}
Deleting == {<<"del">>, <<"get", "del">>, <<"remove", "del">>,
             <<"getindex", "remove", "del">>, <<"get", "getindex", "remove", "del">>}
Adding   == {<<"getindex", "add">>, <<"add">>}
Removing == {<<"getindex", "remove">>, <<"remove">>}
Writing  == Storing \union Rotating
Plans    == Writing \union Deleting \union Adding \union Removing
            \union {<<>>, <<"patch">>, <<"list">>}

Cells == [here : BOOLEAN, user : BOOLEAN, data : SUBSET Fields]
Ops == [plan : Plans, id : Ids \union {NoLogin}, to : Ids \union {NoLogin}, add : SUBSET Fields,
        user : BOOLEAN, rec : Cells, seen : SUBSET Ids, look : SUBSET Ids, found : SUBSET Ids]

TypeOK ==
    /\ backend \in {"memory", "redis", "sql"} /\ program \in {"any", "careful", "serial"}
    /\ store \in [Ids -> Cells] /\ index \in SUBSET Ids
    /\ login \in [Ids -> Ids \union {NoLogin}] /\ ended \in SUBSET Ids
    /\ op \in [Clients -> Ops]

\* A login is named by the first id that stood for it.
LoginsNamed ==
    /\ \A id \in Ids : Used(id) => Used(login[id]) /\ login[login[id]] = login[id]
    /\ \A id \in Ids : store[id].here \/ id \in ended => Used(id)

\* An id that was drawn, and that nobody else is about to use.
Drawn(c) == ~Used(op[c].to) /\ \A d \in Clients : d # c => op[d].to # op[c].to

\* What an operation knows of its ids.
Creates(c) == op[c].to = op[c].id /\ Drawn(c) /\ Head(op[c].plan) = "put" /\ op[c].rec = NoRecord
Updates(c) == op[c].to = op[c].id /\ Used(op[c].id) /\ backend = "redis"
Rotates(c) == op[c].to # op[c].id /\ Used(op[c].id) /\ Drawn(c) /\ op[c].add = {} /\ ~op[c].user

OpFits(c) ==
    /\ op[c].plan = <<>> => op[c] = NoOp \/ op[c].look # {} \/ op[c].found # {}
    /\ op[c].plan \in Writing => op[c].to \in Ids /\ op[c].id \in Ids
    /\ op[c].plan \in Storing => Creates(c) \/ Updates(c)
    /\ op[c].plan \in Rotating => Rotates(c)
    /\ op[c].plan \in Writing /\ Used(op[c].id) => (op[c].rec.here <=> Head(op[c].plan) = "put")
    /\ op[c].plan \in Touching => ~op[c].user
    /\ op[c].plan \in Deleting \union Adding \union {<<"patch">>} =>
          op[c].id \in Ids /\ op[c].to \in Ids /\ Used(op[c].id)
    /\ op[c].plan \in Deleting /\ Head(op[c].plan) = "get" => ~op[c].rec.here
    /\ op[c].plan \in Removing => op[c].id \in Ids
    /\ op[c].plan \in Adding => op[c].rec = NoRecord
    /\ op[c].plan = <<"list">> \/ op[c].look # {} \/ op[c].found # {} \/ op[c].plan \in Removing =>
          backend = "redis" /\ program # "careful"
    /\ \A id \in op[c].found : Used(id)
    /\ op[c].plan = <<"patch">> => backend # "redis"

Works(c) == op[c] # NoOp /\ op[c].id \in Ids

\* One operation of a login at a time, or one at all.
Exclusive ==
    /\ program # "any" =>
          \A c, d \in Clients :
              Works(c) /\ Works(d) /\ login[op[c].id] = login[op[d].id] /\ Used(op[c].id) => c = d
    /\ program = "serial" => \A c, d \in Clients : op[c] # NoOp /\ op[d] # NoOp => c = d

\* Who will write a record that it has read writes what is there, and of a login
\* that has not ended.
Holds(c) == op[c].plan \in Writing /\ op[c].rec.here
Stands(c) ==
    Holds(c) =>
        /\ op[c].id \notin ended
        /\ store[op[c].id].here => store[op[c].id].data = op[c].rec.data
        /\ \A x \in Ids :
              backend # "sql" /\ login[x] = login[op[c].id] /\ store[x].here => x = op[c].id
ReadStands == program # "any" => \A c \in Clients : Stands(c)

\* Two records are one login only while it is rotated.
Joins(c, x, y) == op[c].plan \in Deleting /\ {op[c].id, op[c].to} = {x, y}
Twins ==
    program # "any" /\ backend # "sql" =>
        \A x, y \in Ids : x # y /\ store[x].here /\ store[y].here /\ login[x] = login[y] =>
            /\ store[x].data = store[y].data
            /\ \E c \in Clients : Joins(c, x, y)

\* The index of the user in a serial program.
Leaves(c, id) ==
    op[c].id = id /\ (op[c].plan \in Deleting \/ (op[c].plan \in Adding /\ op[c].user))
KnowsIndex(c) ==
    /\ Holds(c) /\ op[c].rec.user => op[c].id \in index
    /\ op[c].plan # <<>> /\ Head(op[c].plan) \in {"add", "remove"} => op[c].seen = index
    /\ op[c].plan \in Removing => ~store[op[c].id].here
Indexed ==
    backend = "redis" /\ program = "serial" =>
        /\ \A id \in Ids : store[id].here /\ store[id].user =>
              id \in index \/ \E c \in Clients : Leaves(c, id)
        /\ \A c \in Clients : KnowsIndex(c)

IInv ==
    /\ TypeOK /\ LoginsNamed /\ (\A c \in Clients : OpFits(c))
    /\ Exclusive /\ ReadStands /\ Twins /\ Indexed /\ StaysOut

------------------------------------------------------------------------------
(* Plans                                                                    *)

\* Rotations put two plans together.
LEMMA Concatenated ==
  ASSUME NEW S, NEW s \in Seq(S), NEW t \in Seq(S), NEW u \in Seq(S),
         Len(u) = Len(s) + Len(t), \A i \in 1..Len(s) : u[i] = s[i],
         \A i \in 1..Len(t) : u[i + Len(s)] = t[i]
  PROVE  s \o t = u
<1>1. s \o t \in Seq(S) /\ Len(s \o t) = Len(u)
  BY ConcatProperties
<1>2. Len(s) \in Nat /\ Len(t) \in Nat /\ \A i \in 1..Len(t) : i + Len(s) \in 1..Len(u)
  BY LenProperties
<1>3. \A i \in 1..Len(u) : (s \o t)[i] = u[i]
  <2> TAKE i \in 1..Len(u)
  <2>1. (s \o t)[i] = IF i <= Len(s) THEN s[i] ELSE t[i - Len(s)]
    BY ConcatProperties, <1>2
  <2>2. CASE i <= Len(s)
    BY <2>1, <2>2, <1>2
  <2>3. CASE ~(i <= Len(s))
    <3>1. i - Len(s) \in 1..Len(t) /\ (i - Len(s)) + Len(s) = i
      BY <2>3, <1>2
    <3> QED BY <2>1, <2>3, <3>1
  <2> QED BY <2>2, <2>3
<1> QED BY <1>1, <1>3, SeqEqual

\* The plans of rotations, by storage.
LEMMA RotatePlan ==
  /\ <<"get", "put">> \o <<"del">> = <<"get", "put", "del">>
  /\ <<"get", "put">> \o <<"get", "del">> = <<"get", "put", "get", "del">>
  /\ <<"get", "put">> \o <<"get", "getindex", "remove", "del">>
        = <<"get", "put", "get", "getindex", "remove", "del">>
<1> DEFINE S == {"get", "put", "getindex", "remove", "del"}
           s == <<"get", "put">>
<1>1. ASSUME NEW t \in Seq(S), NEW u \in Seq(S), Len(u) = 2 + Len(t),
             u[1] = "get", u[2] = "put", \A i \in 1..Len(t) : u[i + 2] = t[i]
      PROVE  s \o t = u
  <2>1. s \in Seq(S) /\ Len(s) = 2 /\ s[1] = "get" /\ s[2] = "put"
    OBVIOUS
  <2>2. Len(u) = Len(s) + Len(t) /\ (\A i \in 1..Len(s) : u[i] = s[i])
        /\ \A i \in 1..Len(t) : u[i + Len(s)] = t[i]
    BY <1>1, <2>1
  <2> HIDE DEF S, s
  <2> QED BY <1>1, <2>1, <2>2, Concatenated
<1>2. s \o <<"del">> = <<"get", "put", "del">>
  <2> DEFINE t == <<"del">>
             u == <<"get", "put", "del">>
  <2>1. t \in Seq(S) /\ u \in Seq(S) /\ Len(u) = 2 + Len(t) /\ u[1] = "get" /\ u[2] = "put"
        /\ \A i \in 1..Len(t) : u[i + 2] = t[i]
    OBVIOUS
  <2> HIDE DEF S, s, t, u
  <2>2. s \o t = u
    BY <2>1, <1>1
  <2> QED BY <2>2 DEF t, u
<1>3. s \o <<"get", "del">> = <<"get", "put", "get", "del">>
  <2> DEFINE t == <<"get", "del">>
             u == <<"get", "put", "get", "del">>
  <2>1. t \in Seq(S) /\ u \in Seq(S) /\ Len(u) = 2 + Len(t) /\ u[1] = "get" /\ u[2] = "put"
        /\ \A i \in 1..Len(t) : u[i + 2] = t[i]
    OBVIOUS
  <2> HIDE DEF S, s, t, u
  <2>2. s \o t = u
    BY <2>1, <1>1
  <2> QED BY <2>2 DEF t, u
<1>4. s \o <<"get", "getindex", "remove", "del">>
        = <<"get", "put", "get", "getindex", "remove", "del">>
  <2> DEFINE t == <<"get", "getindex", "remove", "del">>
             u == <<"get", "put", "get", "getindex", "remove", "del">>
  <2>1. t \in Seq(S) /\ u \in Seq(S) /\ Len(u) = 2 + Len(t) /\ u[1] = "get" /\ u[2] = "put"
        /\ \A i \in 1..Len(t) : u[i + 2] = t[i]
    OBVIOUS
  <2> HIDE DEF S, s, t, u
  <2>2. s \o t = u
    BY <2>1, <1>1
  <2> QED BY <2>2 DEF t, u
<1> QED BY <1>2, <1>3, <1>4

\* What is left of each plan after its first call.
LEMMA Tails ==
  /\ Tail(<<"put">>) = <<>> /\ Tail(<<"get", "put">>) = <<"put">>
  /\ Tail(<<"put", "getindex", "add">>) = <<"getindex", "add">>
  /\ Tail(<<"get", "put", "getindex", "add">>) = <<"put", "getindex", "add">>
  /\ Tail(<<"put", "del">>) = <<"del">> /\ Tail(<<"get", "put", "del">>) = <<"put", "del">>
  /\ Tail(<<"put", "get", "del">>) = <<"get", "del">>
  /\ Tail(<<"get", "put", "get", "del">>) = <<"put", "get", "del">>
  /\ Tail(<<"put", "get", "getindex", "remove", "del">>) = <<"get", "getindex", "remove", "del">>
  /\ Tail(<<"get", "put", "get", "getindex", "remove", "del">>)
        = <<"put", "get", "getindex", "remove", "del">>
  /\ Tail(<<"del">>) = <<>> /\ Tail(<<"get", "del">>) = <<"del">>
  /\ Tail(<<"remove", "del">>) = <<"del">>
  /\ Tail(<<"getindex", "remove", "del">>) = <<"remove", "del">>
  /\ Tail(<<"get", "getindex", "remove", "del">>) = <<"getindex", "remove", "del">>
  /\ Tail(<<"getindex", "add">>) = <<"add">> /\ Tail(<<"add">>) = <<>>
  /\ Tail(<<"getindex", "remove">>) = <<"remove">> /\ Tail(<<"remove">>) = <<>>
  /\ Tail(<<"patch">>) = <<>> /\ Tail(<<"list">>) = <<>>
  OBVIOUS

\* The first call of each plan.
LEMMA Heads ==
  /\ \A p \in {<<"put">>, <<"put", "getindex", "add">>, <<"put", "del">>, <<"put", "get", "del">>,
               <<"put", "get", "getindex", "remove", "del">>} : Head(p) = "put"
  /\ \A p \in {<<"get", "put">>, <<"get", "put", "getindex", "add">>, <<"get", "put", "del">>,
               <<"get", "put", "get", "del">>, <<"get", "put", "get", "getindex", "remove", "del">>,
               <<"get", "del">>, <<"get", "getindex", "remove", "del">>} : Head(p) = "get"
  /\ \A p \in {<<"getindex", "remove", "del">>, <<"getindex", "add">>, <<"getindex", "remove">>} :
        Head(p) = "getindex"
  /\ \A p \in {<<"remove", "del">>, <<"remove">>} : Head(p) = "remove"
  /\ Head(<<"add">>) = "add" /\ Head(<<"del">>) = "del"
  /\ Head(<<"patch">>) = "patch" /\ Head(<<"list">>) = "list"
  OBVIOUS

\* The classes are apart, and the first call says which of them a plan is in.
LEMMA Classes ==
  /\ \A p \in Writing : p \notin Deleting /\ p \notin Adding /\ p \notin Removing
  /\ \A p \in Deleting : p \notin Adding /\ p \notin Removing
  /\ \A p \in Adding : p \notin Removing
  /\ \A p \in Storing : p \notin Rotating
  /\ \A p \in {<<>>, <<"patch">>, <<"list">>} :
        p \notin Writing /\ p \notin Deleting /\ p \notin Adding /\ p \notin Removing
  /\ Touching \subseteq Storing
<1> USE DEF Writing, Storing, Touching, Rotating, Deleting, Adding, Removing
<1>1. \A p \in Writing : p \notin Deleting
  OBVIOUS
<1>2. \A p \in Writing : p \notin Adding /\ p \notin Removing
  OBVIOUS
<1>3. \A p \in Deleting : p \notin Adding /\ p \notin Removing
  OBVIOUS
<1>4. \A p \in Storing : p \notin Rotating
  OBVIOUS
<1>5. \A p \in {<<>>, <<"patch">>, <<"list">>} :
        p \notin Writing /\ p \notin Deleting /\ p \notin Adding /\ p \notin Removing
  OBVIOUS
<1>6. \A p \in Adding : p \notin Removing
  OBVIOUS
<1> QED BY <1>1, <1>2, <1>3, <1>4, <1>5, <1>6

\* What is left to do after a read,
LEMMA GetNext ==
  ASSUME NEW p \in Plans, p # <<>>, Head(p) = "get"
  PROVE  /\ p \in Writing \union Deleting
         /\ p \in Writing => Tail(p) \in Writing /\ Head(Tail(p)) = "put"
         /\ p \in Storing => Tail(p) \in Storing
         /\ p \in Rotating => Tail(p) \in Rotating
         /\ Tail(p) \in Touching => p \in Touching
         /\ p \in Deleting => Tail(p) \in Deleting /\ Head(Tail(p)) \in {"getindex", "del"}
         /\ Tail(p) # <<>>
<1>1. p \in {<<"get", "put">>,
             <<"get", "put", "getindex", "add">>,
             <<"get", "put", "del">>,
             <<"get", "put", "get", "del">>,
             <<"get", "put", "get", "getindex", "remove", "del">>,
             <<"get", "del">>,
             <<"get", "getindex", "remove", "del">>}
  BY Heads DEF Plans, Writing, Storing, Touching, Rotating, Deleting, Adding, Removing
<1>2. CASE p = <<"get", "put">>
  BY <1>2, Tails, Heads DEF Plans, Writing, Storing, Touching, Rotating, Deleting, Adding, Removing
<1>3. CASE p = <<"get", "put", "getindex", "add">>
  BY <1>3, Tails, Heads DEF Plans, Writing, Storing, Touching, Rotating, Deleting, Adding, Removing
<1>4. CASE p = <<"get", "put", "del">>
  BY <1>4, Tails, Heads DEF Plans, Writing, Storing, Touching, Rotating, Deleting, Adding, Removing
<1>5. CASE p = <<"get", "put", "get", "del">>
  BY <1>5, Tails, Heads DEF Plans, Writing, Storing, Touching, Rotating, Deleting, Adding, Removing
<1>6. CASE p = <<"get", "put", "get", "getindex", "remove", "del">>
  BY <1>6, Tails, Heads DEF Plans, Writing, Storing, Touching, Rotating, Deleting, Adding, Removing
<1>7. CASE p = <<"get", "del">>
  BY <1>7, Tails, Heads DEF Plans, Writing, Storing, Touching, Rotating, Deleting, Adding, Removing
<1>8. CASE p = <<"get", "getindex", "remove", "del">>
  BY <1>8, Tails, Heads DEF Plans, Writing, Storing, Touching, Rotating, Deleting, Adding, Removing
<1> QED BY <1>1, <1>2, <1>3, <1>4, <1>5, <1>6, <1>7, <1>8

\* after a record was written,
LEMMA PutNext ==
  ASSUME NEW p \in Plans, p # <<>>, Head(p) = "put"
  PROVE  /\ p \in Writing
         /\ p \in Touching => Tail(p) = <<>>
         /\ p \in Storing \ Touching => Tail(p) \in Adding /\ Head(Tail(p)) = "getindex"
         /\ p \in Rotating => Tail(p) \in Deleting /\ Head(Tail(p)) \in {"get", "del"}
         /\ Tail(p) # <<>> => p \notin Touching
<1>1. p \in {<<"put">>,
             <<"put", "getindex", "add">>,
             <<"put", "del">>,
             <<"put", "get", "del">>,
             <<"put", "get", "getindex", "remove", "del">>}
  BY Heads DEF Plans, Writing, Storing, Touching, Rotating, Deleting, Adding, Removing
<1>2. CASE p = <<"put">>
  BY <1>2, Tails, Heads DEF Plans, Writing, Storing, Touching, Rotating, Deleting, Adding, Removing
<1>3. CASE p = <<"put", "getindex", "add">>
  BY <1>3, Tails, Heads DEF Plans, Writing, Storing, Touching, Rotating, Deleting, Adding, Removing
<1>4. CASE p = <<"put", "del">>
  BY <1>4, Tails, Heads DEF Plans, Writing, Storing, Touching, Rotating, Deleting, Adding, Removing
<1>5. CASE p = <<"put", "get", "del">>
  BY <1>5, Tails, Heads DEF Plans, Writing, Storing, Touching, Rotating, Deleting, Adding, Removing
<1>6. CASE p = <<"put", "get", "getindex", "remove", "del">>
  BY <1>6, Tails, Heads DEF Plans, Writing, Storing, Touching, Rotating, Deleting, Adding, Removing
<1> QED BY <1>1, <1>2, <1>3, <1>4, <1>5, <1>6

\* after a call that is about the index,
LEMMA IndexNext ==
  ASSUME NEW p \in Plans, p # <<>>
  PROVE  /\ Head(p) = "getindex" =>
               /\ p \in Deleting \union Adding \union Removing
               /\ p \in Deleting => /\ Tail(p) \in Deleting /\ Tail(Tail(p)) \in Deleting
                                    /\ Head(Tail(p)) = "remove" /\ Head(Tail(Tail(p))) = "del"
               /\ p \in Adding => Tail(p) \in Adding /\ Head(Tail(p)) = "add"
               /\ p \in Removing => Tail(p) \in Removing /\ Head(Tail(p)) = "remove"
               /\ p \in Adding \union Removing => Tail(Tail(p)) = <<>>
         /\ Head(p) = "add" => p \in Adding /\ Tail(p) = <<>>
         /\ Head(p) = "remove" =>
               /\ p \in Deleting \union Removing
               /\ p \in Removing => Tail(p) = <<>>
               /\ p \in Deleting => Tail(p) \in Deleting /\ Head(Tail(p)) = "del"
  BY Heads, Tails DEF Plans, Writing, Storing, Touching, Rotating, Deleting, Adding, Removing

\* and after one that ends its plan.
LEMMA LastNext ==
  ASSUME NEW p \in Plans, p # <<>>
  PROVE  /\ Head(p) = "del" => p \in Deleting /\ Tail(p) = <<>>
         /\ Head(p) = "patch" => p = <<"patch">> /\ Tail(p) = <<>>
         /\ Head(p) = "list" => p = <<"list">> /\ Tail(p) = <<>>
<1>1. p \in {<<"del">>, <<"patch">>, <<"list">>} \/ Head(p) \notin {"del", "patch", "list"}
  <2>1. CASE p \in Writing
    BY <2>1, Heads DEF Writing, Storing, Touching, Rotating
  <2>2. CASE p \in Deleting
    BY <2>2, Heads DEF Deleting
  <2>3. CASE p \in Adding \union Removing
    BY <2>3, Heads DEF Adding, Removing
  <2> QED BY <2>1, <2>2, <2>3 DEF Plans
<1>2. <<"del">> \in Deleting
  BY DEF Deleting
<1> QED BY <1>1, <1>2, Heads, Tails

\* What is left of a plan is a plan.
LEMMA TailsOfPlans ==
  ASSUME NEW p \in Plans, p # <<>>
  PROVE  Tail(p) \in Plans /\ (Head(p) = "getindex" => Tail(Tail(p)) \in Plans)
<1>1. Writing \subseteq Plans /\ Deleting \subseteq Plans /\ Adding \subseteq Plans
      /\ Removing \subseteq Plans /\ <<>> \in Plans
  BY DEF Plans
<1>2. Head(p) \in {"get", "put", "getindex", "add", "remove", "del", "patch", "list"}
  BY Heads DEF Plans, Writing, Storing, Touching, Rotating, Deleting, Adding, Removing
<1>3. CASE Head(p) = "get"
  BY <1>1, <1>3, GetNext
<1>4. CASE Head(p) = "put"
  <2>1. p \in Storing \/ p \in Rotating
    BY <1>4, PutNext DEF Writing
  <2> QED BY <1>1, <1>4, <2>1, PutNext
<1>5. CASE Head(p) \in {"getindex", "add", "remove"}
  BY <1>1, <1>5, IndexNext
<1>6. CASE Head(p) \in {"del", "patch", "list"}
  BY <1>1, <1>6, LastNext
<1> QED BY <1>2, <1>3, <1>4, <1>5, <1>6

------------------------------------------------------------------------------
(* Steps that leave what others know alone                                  *)

\* A step leaves to the others what they know, if it draws none of their ids.
LEMMA OthersFit ==
  ASSUME TypeOK, NEW d \in Clients, OpFits(d), op'[d] = op[d], UNCHANGED setting,
         \A id \in Ids : Used(id) => Used(id)',
         op[d].plan \in Writing /\ Drawn(d) => Drawn(d)'
  PROVE  OpFits(d)'
<1>1. op[d] \in Ops
  BY DEF TypeOK
<1>2. Writing = Storing \union Rotating
  BY DEF Writing
<1>3. op[d].plan \in Storing => (Creates(d) \/ Updates(d))'
  BY <1>2 DEF OpFits, Creates, Updates, setting
<1>4. op[d].plan \in Rotating => Rotates(d)'
  BY <1>2 DEF OpFits, Rotates
<1>5. op[d].plan \in Writing /\ Used(op[d].id)' => Used(op[d].id)
  BY <1>2, <1>3 DEF OpFits, Creates, Updates, Rotates, Drawn
<1>6. \A id \in op[d].found : id \in Ids
  BY <1>1 DEF Ops
<1> QED BY <1>3, <1>4, <1>5, <1>6 DEF OpFits, setting

\* A step in which one client goes on, and records at most go.
LEMMA KeepsFit ==
  ASSUME IInv, NEW c \in Clients, UNCHANGED <<setting, login>>,
         op' \in [Clients -> Ops], \A d \in Clients \ {c} : op'[d] = op[d], OpFits(c)',
         store' \in [Ids -> Cells], index' \in SUBSET Ids, ended' \in SUBSET Ids,
         \A x \in Ids : store'[x].here \/ x \in ended' => store[x].here \/ x \in ended,
         op'[c].to = op[c].to \/ op'[c].to = NoLogin \/ Used(op'[c].to)
            \/ \A d \in Clients : op[d].to # op'[c].to,
         program # "any" /\ Works(c)' /\ Used(op'[c].id) =>
            \/ Works(c) /\ op'[c].id = op[c].id
            \/ \A d \in Clients \ {c} : Works(d) => login[op[d].id] # login[op'[c].id],
         program = "serial" /\ op'[c] # NoOp => op[c] # NoOp \/ \A d \in Clients : op[d] = NoOp
  PROVE  TypeOK' /\ LoginsNamed' /\ (\A d \in Clients : OpFits(d)') /\ Exclusive'
<1> USE DEF IInv
<1>1. TypeOK'
  BY DEF TypeOK, setting
<1>2. LoginsNamed'
  BY DEF LoginsNamed, Used
<1>3. ASSUME NEW d \in Clients PROVE OpFits(d)'
  <2>1. CASE d = c
    BY <2>1
  <2>2. CASE d # c
    <3>1. \A id \in Ids : Used(id) => Used(id)'
      BY DEF Used
    <3>2. op[d].plan \in Writing /\ Drawn(d) => Drawn(d)'
      <4> SUFFICES ASSUME op[d].plan \in Writing, Drawn(d) PROVE Drawn(d)'
        OBVIOUS
      <4>1. op'[d] = op[d] /\ op[d].to \in Ids /\ ~Used(op[d].to)
        BY <2>2 DEF OpFits, Drawn
      <4>2. op'[c].to # op[d].to
        BY <4>1, <2>2, IdsAssumption DEF Drawn, Used
      <4>3. ASSUME NEW e \in Clients, e # d PROVE op'[e].to # op'[d].to
        BY <4>1, <4>2, <4>3 DEF Drawn
      <4>4. ~Used(op[d].to)'
        BY <4>1 DEF Used
      <4> QED BY <4>3, <4>4 DEF Drawn
    <3> QED BY <2>2, <3>1, <3>2, OthersFit
  <2> QED BY <2>1, <2>2
<1>4. Exclusive'
  <2>1. ASSUME program # "any", NEW x \in Clients, NEW y \in Clients, Works(x)', Works(y)',
               login[op'[x].id] = login[op'[y].id], login[op'[x].id] # NoLogin
        PROVE  x = y
    <3>1. CASE x # c /\ y # c
      <4>1. Works(x) /\ Works(y) /\ op'[x] = op[x] /\ op'[y] = op[y]
        BY <2>1, <3>1 DEF Works
      <4> QED BY <2>1, <4>1 DEF Exclusive, Used
    <3>2. ASSUME NEW u \in Clients, u # c, Works(u)', Works(c)',
                 login[op'[u].id] = login[op'[c].id], login[op'[c].id] # NoLogin
          PROVE  FALSE
      <4>1. Works(u) /\ op'[u] = op[u]
        BY <3>2 DEF Works
      <4>2. Works(c) /\ op'[c].id = op[c].id
        BY <2>1, <3>2, <4>1 DEF Used
      <4> QED BY <2>1, <3>2, <4>1, <4>2 DEF Exclusive, Used
    <3> QED BY <2>1, <3>1, <3>2
  <2>2. ASSUME program = "serial", NEW x \in Clients, NEW y \in Clients,
               op'[x] # NoOp, op'[y] # NoOp
        PROVE  x = y
    BY <2>2 DEF Exclusive
  <2> QED BY <2>1, <2>2 DEF Exclusive, Used, setting
<1> QED BY <1>1, <1>2, <1>3, <1>4

\* A step that writes no record, but may remove some and end their ids, leaves
\* to the others what they have read.
LEMMA KeepsRecords ==
  ASSUME IInv, NEW c \in Clients, UNCHANGED <<setting, login>>,
         \A d \in Clients \ {c} : op'[d] = op[d],
         \A x \in Ids : store'[x].here => store'[x] = store[x],
         \A x \in ended' \ ended : ~store'[x].here /\ (program # "any" =>
             \A d \in Clients \ {c} : Holds(d) => op[d].id # x),
         program # "any" => Stands(c)',
         op[c].plan \in Deleting /\ store'[op[c].id].here =>
            op'[c].plan \in Deleting /\ op'[c].id = op[c].id /\ op'[c].to = op[c].to
  PROVE  ReadStands' /\ Twins' /\ StaysOut'
<1> USE DEF IInv
<1>1. \A d \in Clients : op[d].plan \in Writing => op[d].id \in Ids
  BY DEF OpFits
<1>5. ReadStands'
  <2>1. ASSUME program # "any", NEW d \in Clients, d # c PROVE Stands(d)'
    BY <1>1, <2>1 DEF ReadStands, Stands, Holds, setting
  <2> QED BY <2>1 DEF ReadStands, setting
<1>6. ASSUME program # "any", backend # "sql", NEW x \in Ids, NEW y \in Ids, x # y,
             store'[x].here, store'[y].here, login[x] = login[y]
      PROVE  /\ store'[x].data = store'[y].data
             /\ \E d \in Clients : Joins(d, x, y)'
  <2>1. store'[x] = store[x] /\ store'[y] = store[y] /\ store[x].data = store[y].data
    BY <1>6 DEF Twins
  <2>2. PICK d \in Clients : Joins(d, x, y)
    BY <1>6, <2>1 DEF Twins
  <2>3. op'[d].plan \in Deleting /\ op'[d].id = op[d].id /\ op'[d].to = op[d].to
    BY <1>6, <2>2 DEF Joins
  <2>4. Joins(d, x, y)'
    BY <2>2, <2>3 DEF Joins
  <2> QED BY <2>1, <2>4
<1>7. Twins'
  BY <1>6 DEF Twins, setting
<1>8. StaysOut'
  BY DEF StaysOut, setting, TypeOK
<1> QED BY <1>5, <1>7, <1>8

\* A step that changes nothing but what a client is doing.
LEMMA QuietStep ==
  ASSUME IInv, NEW c \in Clients, UNCHANGED <<setting, store, index, login, ended>>,
         op' \in [Clients -> Ops], \A d \in Clients \ {c} : op'[d] = op[d], OpFits(c)',
         op'[c].to = op[c].to \/ op'[c].to = NoLogin \/ Used(op'[c].to)
            \/ \A d \in Clients : op[d].to # op'[c].to,
         program # "any" /\ Works(c)' /\ Used(op'[c].id) =>
            \/ Works(c) /\ op'[c].id = op[c].id
            \/ \A d \in Clients \ {c} : Works(d) => login[op[d].id] # login[op'[c].id],
         program = "serial" /\ op'[c] # NoOp => op[c] # NoOp \/ \A d \in Clients : op[d] = NoOp,
         program # "any" => Stands(c)',
         op[c].plan \in Deleting /\ store[op[c].id].here =>
            op'[c].plan \in Deleting /\ op'[c].id = op[c].id /\ op'[c].to = op[c].to,
         backend = "redis" /\ program = "serial" =>
            /\ \A id \in Ids : store[id].here /\ Leaves(c, id) => Leaves(c, id)'
            /\ KnowsIndex(c)'
  PROVE  IInv'
<1> USE DEF IInv
<1>1. TypeOK' /\ LoginsNamed' /\ (\A d \in Clients : OpFits(d)') /\ Exclusive'
  BY KeepsFit DEF TypeOK
<1>2. ReadStands' /\ Twins' /\ StaysOut'
  BY KeepsRecords
<1>3. Indexed'
  <2> SUFFICES ASSUME backend = "redis", program = "serial"
               PROVE  /\ \A id \in Ids : store[id].here /\ store[id].user =>
                            id \in index \/ \E d \in Clients : Leaves(d, id)'
                      /\ \A d \in Clients : KnowsIndex(d)'
    BY DEF Indexed, setting
  <2>1. ASSUME NEW id \in Ids, store[id].here, store[id].user, id \notin index
        PROVE  \E d \in Clients : Leaves(d, id)'
    <3>1. PICK d \in Clients : Leaves(d, id)
      BY <2>1 DEF Indexed
    <3>2. Leaves(d, id)'
      BY <2>1, <3>1 DEF Leaves
    <3> QED BY <3>2
  <2>2. ASSUME NEW d \in Clients PROVE KnowsIndex(d)'
    <3>1. CASE d = c
      BY <3>1
    <3>2. CASE d # c
      BY <3>2 DEF Indexed, KnowsIndex, Holds
    <3> QED BY <3>1, <3>2
  <2> QED BY <2>1, <2>2
<1> QED BY <1>1, <1>2, <1>3

------------------------------------------------------------------------------
(* Operations that begin                                                    *)

\* What nobody has done has its type.
LEMMA NothingDone == NoRecord \in Cells /\ NoOp \in Ops /\ NoOp.plan = <<>>
  BY DEF NoOp, NoRecord, Cells, Ops, Plans

\* What a client that has made a call goes on with.
LEMMA Proceeding ==
  ASSUME TypeOK, NEW c \in Clients, NEW o \in Ops, Proceed(c, o)
  PROVE  /\ op' \in [Clients -> Ops] /\ \A d \in Clients \ {c} : op'[d] = op[d]
         /\ op'[c].plan = o.plan
         /\ op'[c] = o \/ op'[c] = NoOp
         /\ op'[c] = NoOp \/ o.plan # <<>> \/ o.look # {} \/ o.found # {}
         /\ o.plan # <<>> => op'[c] = o
  BY NothingDone DEF TypeOK, Proceed

\* An operation that begins.
LEMMA BeginStep ==
  ASSUME IInv, NEW c \in Clients, NEW plan \in Plans, NEW id \in Ids \union {NoLogin},
         NEW to \in Ids \union {NoLogin}, NEW add \in SUBSET Fields, NEW user \in BOOLEAN,
         Begin(c, plan, id, to, add, user), plan # <<>>, plan \notin Removing,
         Head(plan) \notin {"add", "remove"}, OpFits(c)',
         to = NoLogin \/ Used(to) \/ \A d \in Clients : op[d].to # to,
         id \in Ids /\ Used(id) => MayUse(id),
         program = "serial" => Busy = {}
  PROVE  IInv'
<1> DEFINE o == [NoOp EXCEPT !.plan = plan, !.id = id, !.to = to, !.add = add, !.user = user]
<1>1. TypeOK /\ Exclusive
  BY DEF IInv
<1>2. op[c] = NoOp /\ op' = [op EXCEPT ![c] = o]
      /\ UNCHANGED <<setting, store, index, login, ended>>
  BY DEF Begin
<1>3. o \in Ops
  BY NothingDone DEF NoOp, Ops
<1>4. o.plan = plan /\ o.id = id /\ o.to = to /\ o.rec = NoRecord
  BY DEF NoOp
<1> HIDE DEF o
<1>5. op' \in [Clients -> Ops] /\ op'[c] = o /\ \A d \in Clients \ {c} : op'[d] = op[d]
  BY <1>1, <1>2, <1>3 DEF TypeOK
<1>6. ~Holds(c)' /\ Stands(c)'
  BY <1>4, <1>5 DEF Stands, Holds, NoRecord
<1>7. KnowsIndex(c)'
  BY <1>4, <1>5, <1>6 DEF KnowsIndex
<1>8. op[c].plan \notin Deleting /\ op[c].plan \notin Adding
  BY <1>2, NothingDone, Classes
<1>9. program # "any" /\ Works(c)' /\ Used(op'[c].id) =>
         \A d \in Clients \ {c} : Works(d) => login[op[d].id] # login[op'[c].id]
  BY <1>4, <1>5, <1>2 DEF MayUse, Busy, Works, setting
<1>10. program = "serial" => \A d \in Clients : op[d] = NoOp
  BY DEF Busy
<1> QED BY <1>1, <1>2, <1>4, <1>5, <1>6, <1>7, <1>8, <1>9, <1>10, QuietStep DEF Leaves

\* The plans with which the operations begin.
LEMMA PlansMade ==
  ASSUME TypeOK
  PROVE  /\ CreatePlan \in Storing /\ Head(CreatePlan) = "put"
         /\ (CreatePlan \in Touching => backend # "redis")
         /\ backend = "redis" => PatchPlan \in Storing \ Touching /\ Head(PatchPlan) = "get"
         /\ backend # "redis" => PatchPlan = <<"patch">>
         /\ DestroyPlan \in Deleting /\ Head(DestroyPlan) \in {"get", "del"}
         /\ <<"get", "put">> \o DestroyPlan \in Rotating
         /\ Head(<<"get", "put">> \o DestroyPlan) = "get"
<1>1. CreatePlan \in Storing /\ Head(CreatePlan) = "put"
      /\ (CreatePlan \in Touching => backend # "redis")
  BY Heads DEF CreatePlan, Storing, Touching
<1>2. /\ backend = "redis" => PatchPlan \in Storing \ Touching /\ Head(PatchPlan) = "get"
      /\ backend # "redis" => PatchPlan = <<"patch">>
  BY Heads DEF PatchPlan, Storing, Touching
<1>3. CASE backend = "memory"
  <2>1. DestroyPlan = <<"del">>
    BY <1>3 DEF DestroyPlan
  <2> QED BY <1>1, <1>2, <2>1, Heads, RotatePlan DEF Deleting, Rotating
<1>4. CASE backend = "sql"
  <2>1. DestroyPlan = <<"get", "del">>
    BY <1>4 DEF DestroyPlan
  <2> QED BY <1>1, <1>2, <2>1, Heads, RotatePlan DEF Deleting, Rotating
<1>5. CASE backend = "redis"
  <2>1. DestroyPlan = <<"get", "getindex", "remove", "del">>
    BY <1>5 DEF DestroyPlan
  <2> QED BY <1>1, <1>2, <2>1, Heads, RotatePlan DEF Deleting, Rotating
<1> QED BY <1>3, <1>4, <1>5 DEF TypeOK

\* What an operation that begins knows.
LEMMA Begun ==
  ASSUME IInv, NEW c \in Clients, NEW plan, NEW id, NEW to, NEW add, NEW user,
         Begin(c, plan, id, to, add, user)
  PROVE  /\ op'[c].plan = plan /\ op'[c].id = id /\ op'[c].to = to /\ op'[c].add = add
         /\ op'[c].user = user /\ op'[c].rec = NoRecord /\ op'[c].look = {} /\ op'[c].found = {}
         /\ \A d \in Clients \ {c} : op'[d] = op[d]
         /\ UNCHANGED <<setting, store, index, login, ended>>
  BY DEF IInv, TypeOK, Begin, NoOp

\* The same of an operation that has nothing to add.
LEMMA BegunEmpty ==
  ASSUME IInv, NEW c \in Clients, NEW plan, NEW id, NEW to, Begin(c, plan, id, to, {}, FALSE)
  PROVE  /\ op'[c].plan = plan /\ op'[c].id = id /\ op'[c].to = to /\ op'[c].add = {}
         /\ ~op'[c].user /\ ~op'[c].rec.here /\ op'[c].look = {} /\ op'[c].found = {}
         /\ \A d \in Clients \ {c} : op'[d] = op[d]
         /\ UNCHANGED <<backend, program, store, index, login, ended>>
  BY DEF IInv, TypeOK, Begin, NoOp, NoRecord, setting

\* create(), update(), touch(), destroy(), rotate() and destroyMany() begin.
LEMMA OperateStep ==
  ASSUME IInv, NEW c \in Clients, Operate(c)
  PROVE  IInv'
<1>1. TypeOK
  BY DEF IInv
<1>2. Writing = Storing \union Rotating /\ Touching \subseteq Storing /\ <<"list">> \in Plans
      /\ Writing \subseteq Plans /\ Deleting \subseteq Plans /\ <<"patch">> \in Plans
  BY Classes DEF Writing, Plans
<1>3. ASSUME NEW id \in Ids, NEW fs \in SUBSET Fields, Create(c, id, fs) PROVE IInv'
  <2>1. PICK user \in {FALSE, backend = "redis"} : Begin(c, CreatePlan, id, id, fs, user)
    BY <1>3 DEF Create
  <2>2. user \in BOOLEAN /\ (CreatePlan \in Touching => ~user)
    BY <1>1, PlansMade
  <2>3. CreatePlan \in Storing /\ Head(CreatePlan) = "put" /\ CreatePlan \in Plans
    BY <1>1, <1>2, PlansMade
  <2>4. ~Used(id) /\ (\A d \in Clients : op[d].to # id) /\ (program = "serial" => Busy = {})
    BY <1>3 DEF Create, Unused, MayBegin
  <2>5. OpFits(c)'
    <3>1. Creates(c)'
      BY <2>1, <2>3, <2>4, Begun DEF Creates, Drawn, Used
    <3>2. ~Used(op[c].id)'
      BY <2>1, <2>4, Begun DEF Used
    <3>3. CreatePlan # <<>> /\ CreatePlan \notin Rotating \union Deleting \union Adding \union Removing
          /\ CreatePlan # <<"patch">> /\ CreatePlan # <<"list">>
      BY <1>2, <2>3, Classes
    <3> QED BY <1>2, <2>1, <2>2, <2>3, <3>1, <3>2, <3>3, Begun DEF OpFits
  <2>6. CreatePlan # <<>> /\ CreatePlan \notin Removing
    BY <1>2, <2>3, Classes
  <2> QED BY <2>1, <2>2, <2>3, <2>4, <2>5, <2>6, BeginStep
<1>4. ASSUME NEW id \in Ids, NEW f \in Fields, Update(c, id, f) PROVE IInv'
  <2>1. PICK user \in {FALSE, backend = "redis"} : Begin(c, PatchPlan, id, id, {f}, user)
    BY <1>4 DEF Update
  <2>2. user \in BOOLEAN /\ Used(id) /\ MayUse(id) /\ (program = "serial" => Busy = {})
    BY <1>4 DEF Update, MayUse
  <2>3. OpFits(c)'
    <3>1. CASE backend = "redis"
      <4>1. PatchPlan \in Storing \ Touching /\ Head(PatchPlan) = "get"
        BY <1>1, <3>1, PlansMade
      <4>2. Updates(c)'
        BY <2>1, <2>2, <3>1, Begun DEF Updates, Used, setting
      <4>3. PatchPlan \notin Rotating \union Deleting \union Adding \union Removing
            /\ PatchPlan # <<>> /\ PatchPlan # <<"patch">> /\ PatchPlan # <<"list">>
        BY <1>2, <4>1, Classes
      <4> QED BY <1>2, <2>1, <4>1, <4>2, <4>3, Begun DEF OpFits, NoRecord
    <3>2. CASE backend # "redis"
      <4>1. PatchPlan = <<"patch">> /\ <<"patch">> # <<>> /\ <<"patch">> # <<"list">>
        BY <1>1, <3>2, PlansMade
      <4> QED BY <1>2, <2>1, <2>2, <3>2, <4>1, Begun, Classes DEF OpFits, Used, setting
    <3> QED BY <3>1, <3>2
  <2>4. PatchPlan # <<>> /\ PatchPlan \notin Removing /\ PatchPlan \in Plans
        /\ Head(PatchPlan) \notin {"add", "remove"}
    BY <1>1, <1>2, PlansMade, Classes, Heads
  <2> QED BY <2>1, <2>2, <2>3, <2>4, BeginStep
<1>5. ASSUME NEW id \in Ids, Touch(c, id) PROVE IInv'
  <2>1. Begin(c, <<"get", "put">>, id, id, {}, FALSE)
    BY <1>5 DEF Touch
  <2>0. Used(id) /\ MayUse(id) /\ backend = "redis" /\ (program = "serial" => Busy = {})
    BY <1>5 DEF Touch, MayUse
  <2>2. <<"get", "put">> \in Touching /\ Head(<<"get", "put">>) = "get" /\ <<"get", "put">> # <<>>
        /\ <<"get", "put">> # <<"patch">> /\ <<"get", "put">> # <<"list">>
    BY DEF Touching
  <2>3. <<"get", "put">> \notin Rotating \union Deleting \union Adding \union Removing
    BY <1>2, <2>2, Classes
  <2>4. Updates(c)'
    <3>1. op'[c].to = id /\ op'[c].id = id /\ backend' = backend /\ login' = login
      BY <2>1, BegunEmpty
    <3> QED BY <2>0, <3>1 DEF Updates, Used
  <2>5. OpFits(c)'
    BY <1>2, <2>0, <2>1, <2>2, <2>3, <2>4, BegunEmpty DEF OpFits
  <2> QED BY <1>2, <2>0, <2>1, <2>2, <2>3, <2>5, BeginStep
<1>6. ASSUME NEW id \in Ids, Destroy(c, id) PROVE IInv'
  <2>1. Begin(c, DestroyPlan, id, id, {}, FALSE)
    BY <1>6 DEF Destroy
  <2>0. Used(id) /\ MayUse(id) /\ (program = "serial" => Busy = {})
    BY <1>6 DEF Destroy, MayUse
  <2>2. DestroyPlan \in Deleting /\ Head(DestroyPlan) \in {"get", "del"} /\ DestroyPlan \in Plans
    BY <1>1, <1>2, PlansMade
  <2>3. DestroyPlan \notin Writing \union Adding \union Removing /\ DestroyPlan # <<>>
        /\ DestroyPlan # <<"patch">> /\ DestroyPlan # <<"list">>
    BY <1>2, <2>2, Classes
  <2>4. OpFits(c)'
    <3>1. op'[c].to = id /\ op'[c].id = id /\ login' = login
      BY <2>1, BegunEmpty
    <3>2. Used(op[c].id)'
      BY <2>0, <3>1 DEF Used
    <3>3. op'[c].plan = DestroyPlan /\ ~op'[c].rec.here /\ op'[c].look = {} /\ op'[c].found = {}
      BY <2>1, BegunEmpty
    <3> QED BY <1>2, <2>2, <2>3, <3>1, <3>2, <3>3 DEF OpFits
  <2> QED BY <2>0, <2>1, <2>2, <2>3, <2>4, BeginStep
<1>7. ASSUME NEW id \in Ids, NEW new \in Ids, Rotate(c, id, new) PROVE IInv'
  <2> DEFINE plan == <<"get", "put">> \o DestroyPlan
  <2>1. Begin(c, plan, id, new, {}, FALSE)
    BY <1>7 DEF Rotate
  <2>0. Used(id) /\ MayUse(id) /\ Unused(new) /\ (program = "serial" => Busy = {})
    BY <1>7 DEF Rotate, MayUse
  <2>2. plan \in Rotating /\ Head(plan) = "get" /\ plan \in Plans
    BY <1>1, <1>2, PlansMade
  <2> HIDE DEF plan
  <2>3. plan \notin Storing \union Deleting \union Adding \union Removing /\ plan # <<>>
        /\ plan # <<"patch">> /\ plan # <<"list">>
    BY <1>2, <2>2, Classes
  <2>4. Rotates(c)'
    <3>1. op'[c].to = new /\ op'[c].id = id /\ login' = login /\ op'[c].add = {} /\ ~op'[c].user
          /\ \A d \in Clients \ {c} : op'[d] = op[d]
      BY <2>1, BegunEmpty
    <3> QED BY <2>0, <3>1 DEF Rotates, Drawn, Used, Unused
  <2>5. OpFits(c)'
    BY <1>2, <2>1, <2>2, <2>3, <2>4, BegunEmpty DEF OpFits
  <2> QED BY <1>2, <2>0, <2>1, <2>2, <2>3, <2>5, BeginStep DEF Unused
<1>8. ASSUME SignOutAll(c) PROVE IInv'
  <2>1. PICK plan, to, add, user :
           /\ Begin(c, plan, to, to, add, user)
           /\ plan = <<"list">> /\ to = NoLogin /\ add = {} /\ user = FALSE
    BY <1>8 DEF SignOutAll
  <2>2. Begin(c, plan, to, to, add, user) /\ to = NoLogin /\ to \notin Ids
        /\ add \in SUBSET Fields /\ user \in BOOLEAN /\ ~user
    BY <2>1, IdsAssumption
  <2>3. backend = "redis" /\ program # "careful" /\ (program = "serial" => Busy = {})
    BY <1>8 DEF SignOutAll, MayBegin
  <2>4. plan \notin Writing \union Deleting \union Adding \union Removing /\ plan # <<>>
        /\ plan # <<"patch">> /\ Head(plan) \notin {"add", "remove"} /\ plan \in Plans
    BY <1>2, <2>1, Classes, Heads
  <2>5. OpFits(c)'
    <3>1. op'[c].plan = plan /\ op'[c].look = {} /\ op'[c].found = {} /\ UNCHANGED setting
      BY <2>2, Begun
    <3> QED BY <1>2, <2>3, <2>4, <3>1 DEF OpFits, setting
  <2> QED BY <2>2, <2>3, <2>4, <2>5, BeginStep
<1> QED BY <1>3, <1>4, <1>5, <1>6, <1>7, <1>8 DEF Operate

------------------------------------------------------------------------------
(* Reading                                                                  *)

\* Who has returned knows nothing.
LEMMA NothingKnown ==
  ASSUME NEW c \in Clients, op'[c] = NoOp
  PROVE  OpFits(c)' /\ Stands(c)' /\ KnowsIndex(c)' /\ ~Holds(c)'
<1>1. op'[c].plan = <<>> /\ op'[c].look = {} /\ op'[c].found = {}
  BY DEF NoOp
<1>2. <<>> \notin Writing /\ <<>> \notin Deleting /\ <<>> \notin Adding /\ <<>> \notin Removing
      /\ <<>> \notin Storing /\ <<>> \notin Rotating /\ <<>> \notin Touching
      /\ <<>> # <<"patch">> /\ <<>> # <<"list">>
  BY Classes DEF Writing
<1>3. ~Holds(c)'
  BY <1>1, <1>2 DEF Holds
<1>4. OpFits(c)'
  BY <1>1, <1>2 DEF OpFits
<1> QED BY <1>1, <1>2, <1>3, <1>4 DEF Stands, KnowsIndex

\* A call that changes nothing but what its client is doing, and not on what.
LEMMA QuietCall ==
  ASSUME IInv, NEW c \in Clients, NEW o \in Ops, Proceed(c, o), op[c] # NoOp,
         UNCHANGED <<setting, store, index, login, ended>>, o.id = op[c].id, o.to = op[c].to,
         op'[c] = o => OpFits(c)' /\ (program # "any" => Stands(c)')
                       /\ (backend = "redis" /\ program = "serial" => KnowsIndex(c)'),
         op[c].plan \in Deleting /\ store[op[c].id].here => o.plan \in Deleting,
         backend = "redis" /\ program = "serial" =>
            \A id \in Ids : store[id].here /\ Leaves(c, id) =>
                o.plan \in Deleting \/ (o.plan \in Adding /\ o.user)
  PROVE  IInv'
<1>1. TypeOK
  BY DEF IInv
<1>2. /\ op' \in [Clients -> Ops] /\ \A d \in Clients \ {c} : op'[d] = op[d]
      /\ op'[c].plan = o.plan /\ (op'[c] = o \/ op'[c] = NoOp)
      /\ op'[c] = NoOp => o.plan = <<>>
  BY <1>1, Proceeding, NothingDone
<1>3. op'[c].plan = <<>> => o.plan \notin Deleting /\ o.plan \notin Adding
  BY <1>2, Classes
<1>4. op'[c] = o \/ (op'[c] = NoOp /\ op'[c].to = NoLogin /\ op'[c].id = NoLogin)
  BY <1>2 DEF NoOp
<1>5. program # "any" /\ Works(c)' /\ Used(op'[c].id) => Works(c) /\ op'[c].id = op[c].id
  BY <1>4 DEF Works
<1>6. OpFits(c)' /\ (program # "any" => Stands(c)')
      /\ (backend = "redis" /\ program = "serial" => KnowsIndex(c)')
  BY <1>4, NothingKnown
<1>7. op[c].plan \in Deleting /\ store[op[c].id].here =>
         op'[c].plan \in Deleting /\ op'[c].id = op[c].id /\ op'[c].to = op[c].to
  BY <1>2, <1>3, <1>4
<1>8. backend = "redis" /\ program = "serial" =>
         \A id \in Ids : store[id].here /\ Leaves(c, id) => Leaves(c, id)'
  <2> SUFFICES ASSUME backend = "redis", program = "serial", NEW id \in Ids, store[id].here,
                      Leaves(c, id)
               PROVE  Leaves(c, id)'
    OBVIOUS
  <2>1. o.plan \in Deleting \/ (o.plan \in Adding /\ o.user)
    OBVIOUS
  <2>2. op'[c] = o
    BY <2>1, <1>2, <1>3
  <2>3. op[c].id = id
    BY DEF Leaves
  <2> QED BY <2>1, <2>2, <2>3 DEF Leaves
<1> QED BY <1>2, <1>4, <1>5, <1>6, <1>7, <1>8, QuietStep

\* What is known of every client.
LEMMA ClientTyped ==
  ASSUME IInv, NEW c \in Clients
  PROVE  /\ op[c] \in Ops /\ op[c].plan \in Plans /\ op[c].rec \in Cells /\ op[c].look \subseteq Ids
         /\ op[c].found \subseteq Ids /\ op[c].seen \subseteq Ids /\ op[c].user \in BOOLEAN
         /\ op[c].id \in Ids \union {NoLogin} /\ op[c].to \in Ids \union {NoLogin}
         /\ op[c].add \subseteq Fields /\ OpFits(c)
         /\ \A id \in Ids : store[id] \in Cells
         /\ op[c].plan # <<>> => op[c] # NoOp
  BY NothingDone DEF IInv, TypeOK, Ops

\* Who reads in order to write finds what only its own operation may have twice.
LEMMA GetStands ==
  ASSUME IInv, NEW c \in Clients, op[c].plan \in Writing, Used(op[c].id),
         op[c].id \in Ids, store[op[c].id].here, program # "any"
  PROVE  /\ op[c].id \notin ended
         /\ \A x \in Ids :
               backend # "sql" /\ login[x] = login[op[c].id] /\ store[x].here => x = op[c].id
<1>1. op[c].id \notin ended
  BY DEF IInv, StaysOut
<1>2. ASSUME NEW x \in Ids, backend # "sql", login[x] = login[op[c].id], store[x].here, x # op[c].id
      PROVE  FALSE
  <2>1. PICK d \in Clients : Joins(d, x, op[c].id)
    BY <1>2 DEF IInv, Twins
  <2>2. op[d].id \in Ids /\ login[op[d].id] = login[op[c].id]
    BY <1>2, <2>1 DEF Joins
  <2>3. op[c].plan # <<>> /\ op[d].plan # <<>> /\ op[c].plan \notin Deleting
    BY <2>1, Classes DEF Joins
  <2>4. Works(c) /\ Works(d)
    BY <2>2, <2>3, ClientTyped DEF Works
  <2>5. c = d
    BY <2>2, <2>4 DEF IInv, Exclusive
  <2> QED BY <2>1, <2>3, <2>5 DEF Joins
<1> QED BY <1>1, <1>2

\* A read finds the record, or its operation gives up.
LEMMA GetStep ==
  ASSUME IInv, NEW c \in Clients, Get(c)
  PROVE  IInv'
<1> DEFINE p == op[c].plan
           r == store[op[c].id]
           o == IF r.here THEN [Rest(c) EXCEPT !.rec = r] ELSE [op[c] EXCEPT !.plan = <<>>]
<1>1. p \in Plans /\ p # <<>> /\ Head(p) = "get" /\ Proceed(c, o)
      /\ UNCHANGED <<setting, store, index, login, ended>> /\ TypeOK
  BY ClientTyped DEF Get, Calls, IInv
<1>2. p \in Writing \union Deleting /\ op[c].id \in Ids /\ OpFits(c) /\ op[c] \in Ops /\ op[c] # NoOp
  BY <1>1, GetNext, ClientTyped DEF OpFits
<1>3. r \in Cells
  BY <1>1, <1>2, ClientTyped
<1>4. CASE r.here
  <2>1. o = [[op[c] EXCEPT !.plan = Tail(p)] EXCEPT !.rec = r]
    BY <1>4 DEF Rest
  <2>2. o \in Ops /\ o.plan = Tail(p) /\ o.rec = r /\ o.id = op[c].id /\ o.to = op[c].to
        /\ o.add = op[c].add /\ o.user = op[c].user /\ o.look = op[c].look
        /\ o.found = op[c].found
    BY <2>1, <1>1, <1>2, <1>3, TailsOfPlans DEF Ops
  <2>3. /\ p \in Writing => Tail(p) \in Writing /\ Head(Tail(p)) = "put"
        /\ p \in Storing => Tail(p) \in Storing
        /\ p \in Rotating => Tail(p) \in Rotating
        /\ Tail(p) \in Touching => p \in Touching
        /\ p \in Deleting => Tail(p) \in Deleting /\ Head(Tail(p)) \in {"getindex", "del"}
        /\ Tail(p) # <<>>
    BY <1>1, GetNext
  <2> HIDE DEF o, r, p
  <2>4. op'[c] = o /\ \A d \in Clients \ {c} : op'[d] = op[d]
    BY <1>1, <2>2, <2>3, Proceeding
  <2>5. Used(op[c].id)
    BY <1>1, <1>2, <1>4, Heads DEF OpFits, Creates, Updates, Rotates, Writing, p
  <2>6. OpFits(c)'
    <3>1. Drawn(c) => Drawn(c)'
      BY <1>1, <2>2, <2>4 DEF Drawn, Used
    <3>2. p \in Storing => Updates(c)'
      BY <1>1, <1>2, <2>2, <2>4 DEF OpFits, Creates, Updates, Used, p, setting
    <3>3. p \in Rotating => Rotates(c)'
      BY <1>1, <1>2, <2>2, <2>4, <3>1 DEF OpFits, Rotates, Used, p
    <3>4. op'[c].plan \in Storing => p \in Storing
      BY <1>2, <2>2, <2>3, <2>4, Classes DEF Writing
    <3>5. op'[c].plan \in Rotating => p \in Rotating
      BY <1>2, <2>2, <2>3, <2>4, Classes DEF Writing
    <3>6. op'[c].plan \in Writing => p \in Writing
      BY <1>2, <2>2, <2>3, <2>4, Classes
    <3>7. op'[c].plan \in Deleting => p \in Deleting
      BY <1>2, <2>2, <2>3, <2>4, Classes
    <3>8. op'[c].plan \notin Adding /\ op'[c].plan \notin Removing /\ op'[c].plan # <<"patch">>
          /\ op'[c].plan # <<"list">> /\ op'[c].plan # <<>>
      BY <1>2, <2>2, <2>3, <2>4, Classes
    <3>9. \A id \in op[c].found : Used(id)'
      BY <1>1, <1>2 DEF OpFits, Used
    <3>10. Used(op[c].id)'
      BY <1>1, <2>2, <2>4, <2>5 DEF Used
    <3>11. op'[c].plan \in Writing => op'[c].rec.here /\ Head(op'[c].plan) = "put"
      BY <1>4, <2>2, <2>3, <2>4, <3>6
    <3>12. op'[c].plan \in Writing => op'[c].to \in Ids /\ op'[c].id \in Ids
      BY <1>2, <2>2, <2>4, <3>6 DEF OpFits, p
    <3>13. op'[c].plan \in Deleting => /\ op'[c].id \in Ids /\ op'[c].to \in Ids
                                      /\ Head(op'[c].plan) # "get"
      BY <1>2, <2>2, <2>3, <2>4, <3>7 DEF OpFits, p
    <3>14. op'[c].plan \in Touching => ~op'[c].user
      BY <1>2, <2>2, <2>3, <2>4 DEF OpFits, p
    <3>15. op'[c].look # {} \/ op'[c].found # {} => backend' = "redis" /\ program' # "careful"
      BY <1>1, <1>2, <2>2, <2>4 DEF OpFits, setting
    <3>16. \A id \in op'[c].found : Used(id)'
      BY <2>2, <2>4, <3>9
    <3> QED BY <3>2, <3>3, <3>4, <3>5, <3>8, <3>10, <3>11, <3>12, <3>13, <3>14, <3>15, <3>16
            DEF OpFits
  <2>7. program # "any" => Stands(c)'
    <3>1. program # "any" /\ p \in Writing => op[c].id \notin ended /\ \A x \in Ids :
             backend # "sql" /\ login[x] = login[op[c].id] /\ store[x].here => x = op[c].id
      BY <1>2, <1>4, <2>5, GetStands DEF p, r
    <3>2. op'[c].plan \in Writing => p \in Writing
      BY <1>2, <2>2, <2>3, <2>4, Classes
    <3> QED BY <1>1, <2>2, <2>4, <3>1, <3>2 DEF Stands, Holds, r, setting
  <2>8. backend = "redis" /\ program = "serial" => KnowsIndex(c)'
    <3> SUFFICES ASSUME backend = "redis", program = "serial" PROVE KnowsIndex(c)'
      OBVIOUS
    <3>1. ASSUME Holds(c)', op'[c].rec.user PROVE op'[c].id \in index'
      <4>1. p \in Writing /\ r.here /\ r.user
        BY <1>2, <1>4, <2>2, <2>3, <2>4, <3>1, Classes DEF Holds
      <4>2. op[c].id \in index \/ \E d \in Clients : Leaves(d, op[c].id)
        BY <1>2, <4>1 DEF IInv, Indexed, r
      <4>3. ASSUME NEW d \in Clients, Leaves(d, op[c].id) PROVE FALSE
        <5>1. op[d].plan # <<>> /\ op[d].plan \notin Writing
          BY <4>3, Classes DEF Leaves
        <5>2. d = c
          BY <5>1, <1>2, ClientTyped DEF IInv, Exclusive
        <5> QED BY <4>1, <5>1, <5>2 DEF p
      <4> QED BY <1>1, <2>2, <2>4, <4>2, <4>3
    <3>2. op'[c].plan \notin Removing
      BY <1>2, <2>2, <2>3, <2>4, Classes
    <3>3. Head(op'[c].plan) \notin {"add", "remove"}
      BY <1>2, <2>2, <2>3, <2>4
    <3> QED BY <3>1, <3>2, <3>3 DEF KnowsIndex
  <2>9. op[c].plan \in Deleting => o.plan \in Deleting
    BY <2>2, <2>3 DEF p
  <2>10. \A id \in Ids : Leaves(c, id) => o.plan \in Deleting
    BY <1>2, <2>9, Classes DEF Leaves, p
  <2> QED BY <1>1, <1>2, <2>2, <2>6, <2>7, <2>8, <2>9, <2>10, QuietCall
<1>5. CASE ~r.here
  <2>1. o = [op[c] EXCEPT !.plan = <<>>]
    BY <1>5
  <2>2. o \in Ops /\ o.plan = <<>> /\ o.id = op[c].id /\ o.to = op[c].to
        /\ o.look = op[c].look /\ o.found = op[c].found
    BY <2>1, <1>2 DEF Ops, Plans
  <2> HIDE DEF o, r, p
  <2>3. \A d \in Clients \ {c} : op'[d] = op[d]
    BY <1>1, <2>2, Proceeding
  <2>4. <<>> \notin Writing /\ <<>> \notin Deleting /\ <<>> \notin Adding /\ <<>> \notin Removing
        /\ <<>> \notin Storing /\ <<>> \notin Rotating /\ <<>> \notin Touching
        /\ <<>> # <<"patch">> /\ <<>> # <<"list">>
    BY Classes DEF Writing
  <2>5. ASSUME op'[c] = o
        PROVE  OpFits(c)' /\ Stands(c)' /\ KnowsIndex(c)'
    <3>1. o.look # {} \/ o.found # {} \/ o = NoOp
      BY <1>1, <2>2, <2>5, Proceeding
    <3>2. \A id \in op[c].found : Used(id)'
      BY <1>1, <1>2 DEF OpFits, Used
    <3>3. OpFits(c)'
      BY <1>1, <1>2, <2>2, <2>4, <2>5, <3>1, <3>2 DEF OpFits, setting
    <3>4. ~Holds(c)'
      BY <2>2, <2>4, <2>5 DEF Holds
    <3> QED BY <2>2, <2>4, <2>5, <3>3, <3>4 DEF Stands, KnowsIndex
  <2>6. \A id \in Ids : Leaves(c, id) => ~store[id].here
    BY <1>5 DEF Leaves, r
  <2> QED BY <1>1, <1>2, <1>5, <2>2, <2>5, <2>6, QuietCall DEF r
<1> QED BY <1>4, <1>5

------------------------------------------------------------------------------
(* The index and the lists                                                  *)

\* Nothing left to call is in none of the classes.
LEMMA EmptyPlan ==
  /\ <<>> \notin Writing /\ <<>> \notin Deleting /\ <<>> \notin Adding /\ <<>> \notin Removing
  /\ <<>> \notin Storing /\ <<>> \notin Rotating /\ <<>> \notin Touching
  /\ <<>> # <<"patch">> /\ <<>> # <<"list">>
  BY Classes DEF Writing

\* Who has the rest of its plan left to do without a call.
LEMMA PlanOver ==
  ASSUME IInv, NEW c \in Clients, NEW o \in Ops, op'[c] = o, o.plan = <<>>,
         o = NoOp \/ o.look # {} \/ o.found # {}, UNCHANGED setting,
         o.look # {} \/ o.found # {} => backend = "redis" /\ program # "careful",
         \A id \in o.found : Used(id)'
  PROVE  OpFits(c)' /\ Stands(c)' /\ KnowsIndex(c)'
<1>1. OpFits(c)'
  BY EmptyPlan DEF OpFits, setting
<1>2. ~Holds(c)'
  BY EmptyPlan DEF Holds
<1> QED BY <1>1, <1>2, EmptyPlan DEF Stands, KnowsIndex

\* The index is read, or, without a user, left alone.
LEMMA GetIndexStep ==
  ASSUME IInv, NEW c \in Clients, GetIndex(c)
  PROVE  IInv'
<1> DEFINE p == op[c].plan
           o == IF op[c].user \/ op[c].rec.user THEN [Rest(c) EXCEPT !.seen = index]
                ELSE [op[c] EXCEPT !.plan = Tail(Tail(@))]
<1>1. p \in Plans /\ p # <<>> /\ Head(p) = "getindex" /\ Proceed(c, o)
      /\ UNCHANGED <<setting, store, index, login, ended>> /\ TypeOK
  BY ClientTyped DEF GetIndex, Calls, IInv
<1>2. /\ p \in Deleting \union Adding \union Removing
      /\ p \in Deleting => /\ Tail(p) \in Deleting /\ Tail(Tail(p)) \in Deleting
                           /\ Head(Tail(p)) = "remove" /\ Head(Tail(Tail(p))) = "del"
      /\ p \in Adding => Tail(p) \in Adding /\ Head(Tail(p)) = "add"
      /\ p \in Removing => Tail(p) \in Removing /\ Head(Tail(p)) = "remove"
      /\ p \in Adding \union Removing => Tail(Tail(p)) = <<>>
  BY <1>1, IndexNext
<1>3. op[c] \in Ops /\ op[c] # NoOp /\ OpFits(c) /\ index \subseteq Ids
  BY <1>1, ClientTyped DEF IInv, TypeOK
<1>4. Tail(p) \in Plans /\ Tail(Tail(p)) \in Plans
  BY <1>1, TailsOfPlans
<1>5. p \in Deleting \union Adding => op[c].id \in Ids /\ op[c].to \in Ids /\ Used(op[c].id)
  BY <1>1, <1>3 DEF OpFits, p
<1>6. \A id \in op[c].found : Used(id)'
  BY <1>1, <1>3 DEF OpFits, Used
<1>7. CASE op[c].user \/ op[c].rec.user
  <2>1. o = [[op[c] EXCEPT !.plan = Tail(p)] EXCEPT !.seen = index]
    BY <1>7 DEF Rest
  <2>2. o \in Ops /\ o.plan = Tail(p) /\ o.rec = op[c].rec /\ o.id = op[c].id /\ o.to = op[c].to
        /\ o.look = op[c].look /\ o.found = op[c].found /\ o.user = op[c].user /\ o.seen = index
    BY <2>1, <1>3, <1>4 DEF Ops
  <2> HIDE DEF o, p
  <2>3. ASSUME op'[c] = o 
        PROVE  /\ OpFits(c)' /\ Stands(c)'
               /\ backend = "redis" /\ program = "serial" => KnowsIndex(c)'
    <3>1. Tail(p) \notin Writing /\ Tail(p) \notin Storing /\ Tail(p) \notin Rotating
          /\ Tail(p) \notin Touching /\ Tail(p) # <<>> /\ Tail(p) # <<"patch">> /\ Tail(p) # <<"list">>
      BY <1>2, Classes DEF Writing
    <3>2. /\ Tail(p) \in Deleting => p \in Deleting
          /\ Tail(p) \in Adding => p \in Adding
          /\ Tail(p) \in Removing => p \in Removing
      BY <1>2, Classes
    <3>3. Tail(p) \in Adding => op[c].rec = NoRecord
      BY <1>3, <3>2 DEF OpFits, p
    <3>4. Tail(p) \in Removing => op[c].id \in Ids
      BY <1>3, <3>2 DEF OpFits, p
    <3>5. op[c].look # {} \/ op[c].found # {} \/ Tail(p) \in Removing =>
             backend = "redis" /\ program # "careful"
      BY <1>3, <3>2 DEF OpFits, p
    <3>6. Tail(p) \in Deleting => Head(Tail(p)) # "get"
      BY <1>2, <3>2
    <3>0. Tail(p) \in Deleting \union Adding => Used(op[c].id)'
      BY <1>1, <1>5, <2>2, <2>3, <3>2 DEF Used
    <3>7. OpFits(c)'
      BY <1>1, <1>5, <3>0, <1>6, <2>2, <2>3, <3>1, <3>2, <3>3, <3>4, <3>5, <3>6 DEF OpFits, setting
    <3>8. ~Holds(c)'
      BY <2>2, <2>3, <3>1 DEF Holds
    <3>9. backend = "redis" /\ program = "serial" /\ p \in Removing => ~store[op[c].id].here
      BY DEF IInv, Indexed, KnowsIndex, p
    <3>10. backend = "redis" /\ program = "serial" => KnowsIndex(c)'
      BY <1>1, <2>2, <2>3, <3>2, <3>8, <3>9 DEF KnowsIndex
    <3> QED BY <3>7, <3>8, <3>10 DEF Stands
  <2>4. op[c].plan \in Deleting => o.plan \in Deleting
    BY <1>2, <2>2 DEF p
  <2>5. \A id \in Ids : Leaves(c, id) => o.plan \in Deleting \/ (o.plan \in Adding /\ o.user)
    BY <1>2, <2>2 DEF Leaves, p
  <2> QED BY <1>1, <1>3, <2>2, <2>3, <2>4, <2>5, QuietCall
<1>8. CASE ~(op[c].user \/ op[c].rec.user)
  <2>1. o = [op[c] EXCEPT !.plan = Tail(Tail(p))]
    BY <1>8
  <2>2. o \in Ops /\ o.plan = Tail(Tail(p)) /\ o.rec = op[c].rec /\ o.id = op[c].id
        /\ o.to = op[c].to /\ o.look = op[c].look /\ o.found = op[c].found /\ o.user = op[c].user
    BY <2>1, <1>3, <1>4 DEF Ops
  <2> HIDE DEF o, p
  <2>3. ASSUME op'[c] = o PROVE OpFits(c)' /\ Stands(c)' /\ KnowsIndex(c)'
    <3>1. op[c].look # {} \/ op[c].found # {} => backend = "redis" /\ program # "careful"
      BY <1>3 DEF OpFits
    <3>2. CASE p \in Deleting
      <4>1. Tail(Tail(p)) \notin Writing /\ Tail(Tail(p)) \notin Storing
            /\ Tail(Tail(p)) \notin Rotating /\ Tail(Tail(p)) \notin Touching
            /\ Tail(Tail(p)) \notin Adding /\ Tail(Tail(p)) \notin Removing
            /\ Tail(Tail(p)) # <<>> /\ Tail(Tail(p)) # <<"patch">> /\ Tail(Tail(p)) # <<"list">>
            /\ Head(Tail(Tail(p))) = "del"
        BY <1>2, <3>2, Classes DEF Writing
      <4>0. Used(op[c].id)'
        BY <1>1, <1>5, <2>2, <2>3, <3>2 DEF Used
      <4>2. OpFits(c)'
        BY <1>1, <1>2, <4>0, <1>5, <1>6, <2>2, <2>3, <3>1, <3>2, <4>1 DEF OpFits, setting
      <4>3. ~Holds(c)'
        BY <2>2, <2>3, <4>1 DEF Holds
      <4> QED BY <2>2, <2>3, <4>1, <4>2, <4>3 DEF Stands, KnowsIndex
    <3>3. CASE p \notin Deleting
      <4>1. o.plan = <<>>
        BY <1>2, <2>2, <3>3
      <4>2. o = NoOp \/ o.look # {} \/ o.found # {}
        BY <1>1, <2>2, <2>3, <4>1, Proceeding
      <4> QED BY <1>1, <1>6, <2>2, <2>3, <3>1, <4>1, <4>2, PlanOver
    <3> QED BY <3>2, <3>3
  <2>4. op[c].plan \in Deleting => o.plan \in Deleting
    BY <1>2, <2>2 DEF p
  <2>5. \A id \in Ids : Leaves(c, id) => o.plan \in Deleting
    BY <1>8, <2>4 DEF Leaves
  <2> QED BY <1>1, <1>3, <2>2, <2>3, <2>4, <2>5, QuietCall
<1> QED BY <1>7, <1>8

\* A sign-out of everybody reads the index,
LEMMA ListStep ==
  ASSUME IInv, NEW c \in Clients, List(c)
  PROVE  IInv'
<1> DEFINE o == [Rest(c) EXCEPT !.look = index]
<1>1. op[c].plan \in Plans /\ op[c].plan # <<>> /\ Head(op[c].plan) = "list" /\ Proceed(c, o)
      /\ UNCHANGED <<setting, store, index, login, ended>> /\ TypeOK
  BY ClientTyped DEF List, Calls, IInv
<1>2. op[c].plan = <<"list">> /\ Tail(op[c].plan) = <<>>
  BY <1>1, LastNext
<1>3. op[c] \in Ops /\ op[c] # NoOp /\ OpFits(c) /\ index \subseteq Ids
  BY <1>1, ClientTyped DEF IInv, TypeOK
<1>4. o = [[op[c] EXCEPT !.plan = <<>>] EXCEPT !.look = index]
  BY <1>2 DEF Rest
<1>5. o \in Ops /\ o.plan = <<>> /\ o.id = op[c].id /\ o.to = op[c].to /\ o.found = op[c].found
  BY <1>3, <1>4 DEF Ops, Plans
<1> HIDE DEF o
<1>6. backend = "redis" /\ program # "careful" /\ \A id \in op[c].found : Used(id)'
  BY <1>1, <1>2, <1>3 DEF OpFits, Used
<1>7. ASSUME op'[c] = o PROVE OpFits(c)' /\ Stands(c)' /\ KnowsIndex(c)'
  <2>1. o = NoOp \/ o.look # {} \/ o.found # {}
    BY <1>1, <1>5, <1>7, Proceeding
  <2> QED BY <1>1, <1>5, <1>6, <1>7, <2>1, PlanOver
<1>8. op[c].plan \notin Deleting /\ op[c].plan \notin Adding
  BY <1>2, Classes
<1> QED BY <1>1, <1>3, <1>5, <1>7, <1>8, QuietCall DEF Leaves

\* A sign-out of everybody goes from one session to the next.
LEMMA NextOfMany ==
  ASSUME IInv, NEW c \in Clients, NEW o \in Ops, op' = [op EXCEPT ![c] = o],
         UNCHANGED <<setting, store, index, login, ended>>,
         op[c].plan = <<>>, op[c].look # {} \/ op[c].found # {},
         o.id \in Ids, o.to = op[c].to \/ Used(o.to), o.rec = op[c].rec \/ o.rec = NoRecord,
         o.plan \in Removing \union Deleting, Head(o.plan) \in {"get", "getindex", "del"},
         o.plan \in Deleting => Used(o.id) /\ o.to \in Ids /\ ~o.rec.here,
         o.plan \in Removing => ~store[o.id].here,
         \A id \in o.found : Used(id)
  PROVE  IInv'
<1>1. TypeOK /\ OpFits(c) /\ op' \in [Clients -> Ops] /\ op'[c] = o
      /\ \A d \in Clients \ {c} : op'[d] = op[d]
  BY DEF IInv, TypeOK
<1>2. backend = "redis" /\ program # "careful" /\ op[c] # NoOp
  BY <1>1 DEF OpFits, NoOp
<1>3. o.plan \notin Writing /\ o.plan \notin Storing /\ o.plan \notin Rotating /\ o.plan \notin Touching
      /\ o.plan \notin Adding /\ o.plan # <<>> /\ o.plan # <<"patch">> /\ o.plan # <<"list">>
      /\ (o.plan \in Deleting => o.plan \notin Removing)
  BY Classes DEF Writing
<1>4. OpFits(c)'
  BY <1>1, <1>2, <1>3 DEF OpFits, Used, setting
<1>5. ~Holds(c)' /\ Stands(c)'
  BY <1>1, <1>3 DEF Holds, Stands
<1>6. KnowsIndex(c)'
  BY <1>1, <1>3, <1>5 DEF KnowsIndex
<1>7. program # "any" => \A d \in Clients \ {c} : op[d] = NoOp
  BY <1>1, <1>2 DEF IInv, Exclusive, TypeOK
<1>8. program # "any" => \A d \in Clients \ {c} : ~Works(d)
  BY <1>7 DEF Works
<1>9. op[c].plan \notin Deleting /\ \A id \in Ids : ~Leaves(c, id)
  BY EmptyPlan DEF Leaves
<1> QED BY <1>1, <1>2, <1>4, <1>5, <1>6, <1>8, <1>9, QuietStep

\* looks each session up,
LEMMA LookNextStep ==
  ASSUME IInv, NEW c \in Clients, LookNext(c)
  PROVE  IInv'
<1>1. op[c] \in Ops /\ op[c].plan = <<>> /\ UNCHANGED <<setting, store, index, login, ended>>
      /\ TypeOK /\ OpFits(c)
  BY ClientTyped DEF LookNext, IInv
<1>2. PICK id \in op[c].look :
          Proceed(c, IF store[id].here
                     THEN [op[c] EXCEPT !.look = @ \ {id}, !.found = @ \union {id}]
                     ELSE [op[c] EXCEPT !.look = @ \ {id}, !.id = id, !.user = TRUE,
                                        !.plan = <<"getindex", "remove">>])
  BY DEF LookNext
<1>3. id \in Ids /\ op[c] # NoOp
  BY <1>1, <1>2, ClientTyped DEF NoOp
<1>4. CASE store[id].here
  <2> DEFINE o == [op[c] EXCEPT !.look = @ \ {id}, !.found = @ \union {id}]
  <2>1. Proceed(c, o)
    BY <1>2, <1>4
  <2>2. o \in Ops /\ o.plan = <<>> /\ o.id = op[c].id /\ o.to = op[c].to
        /\ o.found = op[c].found \union {id}
    BY <1>1, <1>3 DEF Ops
  <2> HIDE DEF o
  <2>3. backend = "redis" /\ program # "careful" /\ \A x \in o.found : Used(x)'
    BY <1>1, <1>2, <1>3, <1>4, <2>2 DEF OpFits, Used, IInv, LoginsNamed
  <2>4. ASSUME op'[c] = o PROVE OpFits(c)' /\ Stands(c)' /\ KnowsIndex(c)'
    BY <1>1, <2>2, <2>3, <2>4, PlanOver
  <2>5. op[c].plan \notin Deleting /\ \A x \in Ids : ~Leaves(c, x)
    BY <1>1, EmptyPlan DEF Leaves
  <2> QED BY <1>1, <1>3, <2>1, <2>2, <2>4, <2>5, QuietCall
<1>5. CASE ~store[id].here
  <2> DEFINE o == [op[c] EXCEPT !.look = @ \ {id}, !.id = id, !.user = TRUE,
                                !.plan = <<"getindex", "remove">>]
  <2>1. Proceed(c, o)
    BY <1>2, <1>5
  <2>2. <<"getindex", "remove">> \in Removing /\ <<"getindex", "remove">> \in Plans
        /\ Head(<<"getindex", "remove">>) = "getindex" /\ <<"getindex", "remove">> # <<>>
        /\ <<"getindex", "remove">> \notin Deleting
    BY Classes DEF Removing, Plans
  <2>3. o \in Ops /\ o.plan = <<"getindex", "remove">> /\ o.id = id /\ o.to = op[c].to
        /\ o.found = op[c].found /\ o.rec = op[c].rec
    BY <1>1, <1>3, <2>2 DEF Ops
  <2> HIDE DEF o
  <2>4. op' = [op EXCEPT ![c] = o]
    BY <2>1, <2>2, <2>3 DEF Proceed
  <2>5. \A x \in o.found : Used(x)
    BY <1>1, <2>3 DEF OpFits
  <2> QED BY <1>1, <1>2, <1>3, <1>5, <2>2, <2>3, <2>4, <2>5, NextOfMany
<1> QED BY <1>4, <1>5

\* and destroys those it found.
LEMMA DestroyNextStep ==
  ASSUME IInv, NEW c \in Clients, DestroyNext(c)
  PROVE  IInv'
<1>1. op[c] \in Ops /\ op[c].plan = <<>> /\ UNCHANGED <<setting, store, index, login, ended>>
      /\ TypeOK /\ OpFits(c)
  BY ClientTyped DEF DestroyNext, IInv
<1>2. PICK id \in op[c].found :
          op' = [op EXCEPT ![c] = [NoOp EXCEPT !.plan = DestroyPlan, !.id = id, !.to = id,
                                               !.found = op[c].found \ {id}]]
  BY DEF DestroyNext
<1> DEFINE o == [NoOp EXCEPT !.plan = DestroyPlan, !.id = id, !.to = id, !.found = op[c].found \ {id}]
<1>3. id \in Ids /\ Used(id) /\ \A x \in op[c].found : Used(x)
  BY <1>1, <1>2, ClientTyped DEF OpFits
<1>4. DestroyPlan \in Deleting /\ Head(DestroyPlan) \in {"get", "del"} /\ DestroyPlan \in Plans
  BY <1>1, PlansMade DEF Plans
<1>5. o.plan = DestroyPlan /\ o.id = id /\ o.to = id /\ o.rec = NoRecord /\ ~o.rec.here
      /\ o.found = op[c].found \ {id}
  BY DEF NoOp, NoRecord
<1>6. o \in Ops
  BY <1>1, <1>3, <1>4, NothingDone DEF Ops, NoOp
<1>7. DestroyPlan \notin Removing
  BY <1>4, Classes
<1>8. op' = [op EXCEPT ![c] = o]
  BY <1>2
<1>9. /\ op[c].look # {} \/ op[c].found # {}
      /\ o.id \in Ids /\ (o.to = op[c].to \/ Used(o.to)) /\ (o.rec = op[c].rec \/ o.rec = NoRecord)
      /\ o.plan \in Removing \union Deleting /\ Head(o.plan) \in {"get", "getindex", "del"}
      /\ o.plan \in Deleting => Used(o.id) /\ o.to \in Ids /\ ~o.rec.here
      /\ o.plan \in Removing => ~store[o.id].here
      /\ \A x \in o.found : Used(x)
  <2> HIDE DEF o
  <2> QED BY <1>2, <1>3, <1>4, <1>5, <1>7
<1> HIDE DEF o
<1> QED BY <1>1, <1>6, <1>8, <1>9, NextOfMany

------------------------------------------------------------------------------
(* Calls that end a plan                                                    *)

\* What is left of an operation after a call.
LEMMA RestTyped ==
  ASSUME IInv, NEW c \in Clients, op[c].plan # <<>>
  PROVE  /\ Rest(c) \in Ops /\ Rest(c).plan = Tail(op[c].plan) /\ Rest(c).rec = op[c].rec
         /\ Rest(c).id = op[c].id /\ Rest(c).to = op[c].to /\ Rest(c).add = op[c].add
         /\ Rest(c).user = op[c].user /\ Rest(c).seen = op[c].seen
         /\ Rest(c).look = op[c].look /\ Rest(c).found = op[c].found
         /\ Rest(c) = [op[c] EXCEPT !.plan = Tail(op[c].plan)]
         /\ op[c] # NoOp /\ op[c].plan \in Plans
<1>1. op[c] \in Ops /\ op[c].plan \in Plans /\ op[c] # NoOp
  BY ClientTyped
<1>2. Tail(op[c].plan) \in Plans
  BY <1>1, TailsOfPlans
<1>3. Rest(c) = [op[c] EXCEPT !.plan = Tail(op[c].plan)]
  BY DEF Rest
<1> QED BY <1>1, <1>2, <1>3 DEF Ops

\* Nobody else is at work beside a client of a serial program.
LEMMA Alone ==
  ASSUME IInv, NEW c \in Clients, op[c] # NoOp, program = "serial"
  PROVE  \A d \in Clients \ {c} : op[d] = NoOp
  BY DEF IInv, Exclusive

\* The last call of a plan.
LEMMA LastCall ==
  ASSUME IInv, NEW c \in Clients, NEW o \in Ops, Proceed(c, o), op[c] # NoOp,
         UNCHANGED <<setting, login>>, o.plan = <<>>, o.id = op[c].id, o.to = op[c].to,
         o.look = op[c].look, o.found = op[c].found
  PROVE  /\ op' \in [Clients -> Ops] /\ \A d \in Clients \ {c} : op'[d] = op[d]
         /\ op'[c] = o \/ op'[c] = NoOp
         /\ op'[c].plan = <<>>
         /\ OpFits(c)' /\ Stands(c)' /\ KnowsIndex(c)'
         /\ op'[c].to = op[c].to \/ op'[c].to = NoLogin
         /\ Works(c)' => Works(c) /\ op'[c].id = op[c].id
<1>1. TypeOK /\ OpFits(c)
  BY DEF IInv
<1>2. /\ op' \in [Clients -> Ops] /\ \A d \in Clients \ {c} : op'[d] = op[d]
      /\ op'[c] = o \/ op'[c] = NoOp
      /\ op'[c] = NoOp \/ o.look # {} \/ o.found # {}
      /\ op'[c].plan = <<>>
  BY <1>1, Proceeding
<1>3. op'[c] = NoOp => op'[c].id = NoLogin /\ op'[c].to = NoLogin
  BY DEF NoOp
<1>4. Works(c)' => Works(c) /\ op'[c].id = op[c].id
  BY <1>2, IdsAssumption DEF Works, NoOp
<1>5. (op[c].look # {} \/ op[c].found # {} => backend = "redis" /\ program # "careful")
      /\ \A id \in op[c].found : Used(id)'
  BY <1>1 DEF OpFits, Used
<1>6. CASE op'[c] = o
  <2>1. o = NoOp \/ o.look # {} \/ o.found # {}
    BY <1>2, <1>6
  <2>2. OpFits(c)' /\ Stands(c)' /\ KnowsIndex(c)'
    BY <1>5, <1>6, <2>1, PlanOver
  <2> QED BY <1>2, <1>4, <1>6, <2>2
<1>7. CASE op'[c] = NoOp
  BY <1>2, <1>3, <1>4, <1>7, NothingKnown
<1> QED BY <1>2, <1>6, <1>7

\* A record is deleted: its id has ended.
LEMMA DelStep ==
  ASSUME IInv, NEW c \in Clients, Del(c)
  PROVE  IInv'
<1> DEFINE id == op[c].id
<1>1. op[c].plan # <<>> /\ Head(op[c].plan) = "del" /\ Proceed(c, Rest(c)) /\ UNCHANGED <<setting, index, login>>
      /\ store' = [store EXCEPT ![id] = NoRecord]
      /\ ended' = (IF store[id].here THEN ended \union {id} ELSE ended)
  BY DEF Del, Calls
<1>2. op[c].plan \in Deleting /\ Tail(op[c].plan) = <<>>
  BY <1>1, ClientTyped, LastNext
<1>3. id \in Ids /\ Used(id) /\ TypeOK /\ op[c] # NoOp
  BY <1>2, <1>1, ClientTyped DEF OpFits, IInv
<1>4. store' \in [Ids -> Cells] /\ ended' \in SUBSET Ids /\ index' \in SUBSET Ids
      /\ ~store'[id].here /\ \A x \in Ids : x # id => store'[x] = store[x]
  BY <1>1, <1>3, NothingDone DEF TypeOK, NoRecord
<1> HIDE DEF id
<1>5. /\ op' \in [Clients -> Ops] /\ \A d \in Clients \ {c} : op'[d] = op[d]
      /\ op'[c].plan = <<>> /\ OpFits(c)' /\ Stands(c)' /\ KnowsIndex(c)'
      /\ op'[c].to = op[c].to \/ op'[c].to = NoLogin
      /\ Works(c)' => Works(c) /\ op'[c].id = op[c].id
  <2>1. Rest(c) \in Ops /\ Rest(c).plan = <<>> /\ Rest(c).id = op[c].id /\ Rest(c).to = op[c].to
        /\ Rest(c).look = op[c].look /\ Rest(c).found = op[c].found
    <3>1. op[c].plan # <<>>
      BY <1>1
    <3>2. Rest(c) \in Ops /\ Rest(c).plan = Tail(op[c].plan) /\ Rest(c).id = op[c].id
          /\ Rest(c).to = op[c].to /\ Rest(c).look = op[c].look /\ Rest(c).found = op[c].found
      BY <3>1, RestTyped
    <3> QED BY <1>2, <3>2
  <2>2. Proceed(c, Rest(c)) /\ UNCHANGED <<setting, login>>
    BY <1>1
  <2> QED BY <1>3, <2>1, <2>2, LastCall
<1>6. TypeOK' /\ LoginsNamed' /\ (\A d \in Clients : OpFits(d)') /\ Exclusive'
  <2>1. \A x \in Ids : store'[x].here \/ x \in ended' => store[x].here \/ x \in ended
    BY <1>1, <1>4
  <2> QED BY <1>1, <1>3, <1>4, <1>5, <2>1, KeepsFit
<1>7. ReadStands' /\ Twins' /\ StaysOut'
  <2>1. ASSUME program # "any", NEW d \in Clients \ {c}, Holds(d) PROVE op[d].id # id
    <3>1. Works(d) /\ Works(c)
      BY <1>3, <2>1, EmptyPlan, NothingDone DEF Works, Holds, IInv, OpFits, id
    <3> QED BY <1>3, <2>1, <3>1 DEF IInv, Exclusive, id
  <2>2. \A x \in ended' \ ended : x = id
    BY <1>1
  <2>3. \A x \in Ids : store'[x].here => store'[x] = store[x]
    BY <1>4
  <2> QED BY <1>1, <1>4, <1>5, <2>1, <2>2, <2>3, KeepsRecords DEF id
<1>8. Indexed'
  <2> SUFFICES ASSUME backend = "redis", program = "serial"
               PROVE  /\ \A x \in Ids : store'[x].here /\ store'[x].user =>
                            x \in index \/ \E d \in Clients : Leaves(d, x)'
                      /\ \A d \in Clients : KnowsIndex(d)'
    BY <1>1 DEF Indexed, setting
  <2>1. ASSUME NEW x \in Ids, store'[x].here, store'[x].user, x \notin index PROVE FALSE
    <3>1. x # id /\ store[x].here /\ store[x].user
      BY <1>4, <2>1
    <3>2. PICK d \in Clients : Leaves(d, x)
      BY <2>1, <3>1 DEF IInv, Indexed
    <3>3. op[d] # NoOp
      BY <3>2, EmptyPlan, NothingDone DEF Leaves
    <3>4. d = c
      BY <1>3, <3>3, Alone
    <3> QED BY <3>1, <3>2, <3>4 DEF Leaves, id
  <2>2. ASSUME NEW d \in Clients PROVE KnowsIndex(d)'
    BY <1>3, <1>5, Alone, NothingKnown
  <2> QED BY <2>1, <2>2
<1> QED BY <1>6, <1>7, <1>8 DEF IInv

\* The memory storage and SQL patch a record in place.
LEMMA PatchStep ==
  ASSUME IInv, NEW c \in Clients, Patch(c)
  PROVE  IInv'
<1> DEFINE id == op[c].id
<1>1. op[c].plan # <<>> /\ Head(op[c].plan) = "patch" /\ Proceed(c, Rest(c))
      /\ UNCHANGED <<setting, index, login, ended>>
      /\ store' = IF store[id].here
                  THEN [store EXCEPT ![id].data =
                           op[c].add \union (IF backend = "memory" THEN @ ELSE {})]
                  ELSE store
  BY DEF Patch, Calls
<1>2. op[c].plan = <<"patch">> /\ Tail(op[c].plan) = <<>>
  BY <1>1, ClientTyped, LastNext
<1>3. id \in Ids /\ Used(id) /\ TypeOK /\ op[c] # NoOp /\ backend # "redis"
  BY <1>2, <1>1, ClientTyped DEF OpFits, IInv
<1>4. store' \in [Ids -> Cells] /\ (\A x \in Ids : x # id => store'[x] = store[x])
      /\ \A x \in Ids : store'[x].here = store[x].here
  <2>1. CASE ~store[id].here
    BY <1>1, <1>3, <2>1 DEF TypeOK
  <2>2. CASE store[id].here
    <3>1. PICK D : D = op[c].add \union (IF backend = "memory" THEN store[id].data ELSE {})
      OBVIOUS
    <3>2. store' = [store EXCEPT ![id].data = D]
      BY <1>1, <2>2, <3>1
    <3>3. D \in SUBSET Fields /\ store[id] \in Cells /\ store \in [Ids -> Cells]
      BY <1>3, <3>1, ClientTyped DEF TypeOK, Cells, Ops
    <3>4. store'[id] = [store[id] EXCEPT !.data = D] /\ (\A x \in Ids : x # id => store'[x] = store[x])
      BY <1>3, <3>2, <3>3
    <3>5. [store[id] EXCEPT !.data = D] \in Cells /\ [store[id] EXCEPT !.data = D].here = store[id].here
      BY <3>3 DEF Cells
    <3> QED BY <1>3, <3>2, <3>3, <3>4, <3>5
  <2> QED BY <2>1, <2>2
<1> HIDE DEF id
<1>5. /\ op' \in [Clients -> Ops] /\ \A d \in Clients \ {c} : op'[d] = op[d]
      /\ op'[c].plan = <<>> /\ OpFits(c)' /\ Stands(c)'
      /\ op'[c].to = op[c].to \/ op'[c].to = NoLogin
      /\ Works(c)' => Works(c) /\ op'[c].id = op[c].id
  <2>1. Rest(c) \in Ops /\ Rest(c).plan = <<>> /\ Rest(c).id = op[c].id /\ Rest(c).to = op[c].to
        /\ Rest(c).look = op[c].look /\ Rest(c).found = op[c].found
    <3>1. op[c].plan # <<>>
      BY <1>1
    <3>2. Rest(c) \in Ops /\ Rest(c).plan = Tail(op[c].plan) /\ Rest(c).id = op[c].id
          /\ Rest(c).to = op[c].to /\ Rest(c).look = op[c].look /\ Rest(c).found = op[c].found
      BY <3>1, RestTyped
    <3> QED BY <1>2, <3>2
  <2>2. Proceed(c, Rest(c)) /\ UNCHANGED <<setting, login>>
    BY <1>1
  <2> QED BY <1>3, <2>1, <2>2, LastCall
<1>6. TypeOK' /\ LoginsNamed' /\ (\A d \in Clients : OpFits(d)') /\ Exclusive'
  BY <1>1, <1>3, <1>4, <1>5, KeepsFit DEF TypeOK
<1>7. ReadStands'
  <2>1. ASSUME program # "any", NEW d \in Clients \ {c} PROVE Stands(d)'
    <3> SUFFICES ASSUME Holds(d) PROVE Stands(d)'
      BY <1>5 DEF Stands, Holds
    <3>1. Works(d) /\ Works(c) /\ op[d].id \in Ids
      BY <1>3, EmptyPlan, NothingDone DEF Works, Holds, IInv, OpFits, id
    <3>2. op[d].id # id
      BY <1>3, <2>1, <3>1 DEF IInv, Exclusive, id
    <3> QED BY <1>1, <1>4, <1>5, <2>1, <3>1, <3>2 DEF IInv, ReadStands, Stands, setting
  <2> QED BY <1>1, <1>5, <2>1 DEF ReadStands, setting
<1>8. Twins'
  <2>1. ASSUME program # "any", backend # "sql", NEW x \in Ids, NEW y \in Ids, x # y,
               store'[x].here, store'[y].here, login[x] = login[y]
        PROVE  /\ store'[x].data = store'[y].data
               /\ \E d \in Clients : Joins(d, x, y)'
    <3>1. store[x].data = store[y].data /\ \E d \in Clients : Joins(d, x, y)
      BY <1>4, <2>1 DEF IInv, Twins
    <3>2. PICK d \in Clients : Joins(d, x, y)
      BY <3>1
    <3>3. d # c /\ op[d].id \in Ids /\ op[d].id \in {x, y} /\ op[d].plan # <<>>
      BY <1>2, <3>2, Classes, EmptyPlan DEF Joins
    <3>4. Works(d) /\ Works(c)
      BY <1>3, <3>3, NothingDone DEF Works, id
    <3>5. id \notin {x, y}
      BY <1>3, <2>1, <3>3, <3>4 DEF IInv, Exclusive, id
    <3>6. store'[x] = store[x] /\ store'[y] = store[y]
      BY <1>4, <3>5
    <3>7. Joins(d, x, y)'
      BY <1>5, <3>2, <3>3 DEF Joins
    <3> QED BY <3>1, <3>6, <3>7
  <2> QED BY <1>1, <2>1 DEF Twins, setting
<1>9. StaysOut'
  BY <1>1, <1>4, <1>3 DEF StaysOut, IInv, setting, TypeOK
<1>10. Indexed'
  BY <1>1, <1>3 DEF Indexed, setting
<1> QED BY <1>6, <1>7, <1>8, <1>9, <1>10 DEF IInv

\* A record lapses.
LEMMA LapseStep ==
  ASSUME IInv, NEW id \in Ids, Lapse(id)
  PROVE  IInv'
<1>1. UNCHANGED <<setting, index, login, ended, op>> /\ store' = [store EXCEPT ![id] = NoRecord]
  BY DEF Lapse
<1>2. store' \in [Ids -> Cells] /\ ~store'[id].here
      /\ \A x \in Ids : store'[x].here => store'[x] = store[x] /\ store[x].here
  BY <1>1, NothingDone DEF IInv, TypeOK, NoRecord
<1>3. TypeOK' /\ LoginsNamed'
  BY <1>1, <1>2 DEF IInv, TypeOK, LoginsNamed, Used, setting
<1>4. ASSUME NEW d \in Clients PROVE OpFits(d)'
  BY <1>1 DEF IInv, OpFits, Creates, Updates, Rotates, Drawn, Used, setting
<1>5. Exclusive'
  BY <1>1 DEF IInv, Exclusive, Works, Used, setting
<1>6. ReadStands' /\ StaysOut'
  <2>1. ASSUME NEW d \in Clients, Stands(d) PROVE Stands(d)'
    BY <1>1, <1>2, <2>1 DEF Stands, Holds, setting, IInv, OpFits
  <2> QED BY <1>1, <1>2, <2>1 DEF IInv, ReadStands, StaysOut, TypeOK, setting
<1>7. Twins'
  <2>1. \A d \in Clients : \A x, y \in Ids : Joins(d, x, y) => Joins(d, x, y)'
    BY <1>1 DEF Joins
  <2> QED BY <1>1, <1>2, <2>1 DEF IInv, Twins, setting
<1>8. Indexed'
  <2>1. \A d \in Clients : \A x \in Ids : Leaves(d, x) => Leaves(d, x)'
    BY <1>1 DEF Leaves
  <2>2. ASSUME NEW d \in Clients, KnowsIndex(d) PROVE KnowsIndex(d)'
    BY <1>1, <1>2, <2>2 DEF KnowsIndex, Holds, IInv, OpFits
  <2> QED BY <1>1, <1>2, <2>1, <2>2 DEF IInv, Indexed, setting
<1> QED BY <1>3, <1>4, <1>5, <1>6, <1>7, <1>8 DEF IInv

\* The index is written back: in a serial program it is what was read.
LEMMA SetIndexStep ==
  ASSUME IInv, NEW c \in Clients, SetIndex(c)
  PROVE  IInv'
<1> DEFINE p == op[c].plan
           id == op[c].id
           o == [Rest(c) EXCEPT !.seen = {}]
<1>1. p \in Plans /\ p # <<>> /\ Head(p) \in {"add", "remove"} /\ Proceed(c, o)
      /\ UNCHANGED <<setting, store, login, ended>> /\ TypeOK
      /\ index' = (IF Head(p) = "add" THEN op[c].seen \union {id}
                   ELSE IF op[c].seen = {} THEN index ELSE op[c].seen \ {id})
  BY ClientTyped DEF SetIndex, Calls, IInv
<1>2. /\ Head(p) = "add" => p \in Adding /\ Tail(p) = <<>>
      /\ Head(p) = "remove" =>
            /\ p \in Deleting \union Removing
            /\ p \in Removing => Tail(p) = <<>>
            /\ p \in Deleting => Tail(p) \in Deleting /\ Head(Tail(p)) = "del"
  BY <1>1, IndexNext
<1>3. op[c] \in Ops /\ op[c] # NoOp /\ OpFits(c) /\ op[c].seen \subseteq Ids /\ index \subseteq Ids
  BY <1>1, ClientTyped DEF IInv, TypeOK
<1>4. id \in Ids /\ (p \in Deleting => op[c].to \in Ids /\ Used(id))
  BY <1>1, <1>2, <1>3 DEF OpFits
<1>5. o \in Ops /\ o.plan = Tail(p) /\ o.rec = op[c].rec /\ o.id = id /\ o.to = op[c].to
      /\ o.look = op[c].look /\ o.found = op[c].found
  <2>1. Rest(c) \in Ops /\ Rest(c).plan = Tail(p) /\ Rest(c).rec = op[c].rec /\ Rest(c).id = id
        /\ Rest(c).to = op[c].to /\ Rest(c).look = op[c].look /\ Rest(c).found = op[c].found
    BY <1>1, RestTyped
  <2> QED BY <2>1 DEF Ops
<1> HIDE DEF o, p, id
<1>6. CASE p \in Deleting
  <2>1. /\ op'[c] = o /\ op' \in [Clients -> Ops] /\ \A d \in Clients \ {c} : op'[d] = op[d]
        /\ Tail(p) \in Deleting /\ Head(Tail(p)) = "del" /\ Head(p) = "remove"
    <3>1. Head(p) = "remove"
      BY <1>1, <1>2, <1>6, Classes
    <3>2. Tail(p) \in Deleting /\ Head(Tail(p)) = "del" /\ o.plan # <<>>
      BY <1>2, <1>5, <1>6, <3>1, EmptyPlan
    <3> QED BY <1>1, <1>5, <3>1, <3>2, Proceeding
  <2>2. Tail(p) \notin Writing /\ Tail(p) \notin Storing /\ Tail(p) \notin Rotating
        /\ Tail(p) \notin Touching /\ Tail(p) \notin Adding /\ Tail(p) \notin Removing
        /\ Tail(p) # <<>> /\ Tail(p) # <<"patch">> /\ Tail(p) # <<"list">>
    BY <2>1, Classes DEF Writing
  <2>3. op[c].look # {} \/ op[c].found # {} => backend = "redis" /\ program # "careful"
    BY <1>3 DEF OpFits
  <2>4. \A x \in op[c].found : Used(x)'
    BY <1>1, <1>3 DEF OpFits, Used
  <2>5. Used(op[c].id)'
    BY <1>1, <1>4, <1>5, <1>6, <2>1 DEF Used
  <2>6. OpFits(c)'
    BY <1>1, <1>4, <1>5, <1>6, <2>1, <2>2, <2>3, <2>4, <2>5 DEF OpFits, setting
  <2>7. ~Holds(c)' /\ Stands(c)' /\ KnowsIndex(c)'
    BY <1>5, <2>1, <2>2 DEF Holds, Stands, KnowsIndex
  <2>8. TypeOK' /\ LoginsNamed' /\ (\A d \in Clients : OpFits(d)') /\ Exclusive'
    <3>1. store' \in [Ids -> Cells] /\ index' \in SUBSET Ids /\ ended' \in SUBSET Ids
      BY <1>1, <1>3, <1>4 DEF TypeOK
    <3>2. Works(c)' => Works(c) /\ op'[c].id = op[c].id
      BY <1>3, <1>5, <2>1 DEF Works, id
    <3> QED BY <1>1, <1>3, <1>5, <2>1, <2>6, <3>1, <3>2, KeepsFit
  <2>9. ReadStands' /\ Twins' /\ StaysOut'
    BY <1>1, <1>5, <2>1, <2>7, KeepsRecords DEF id
  <2>10. Indexed'
    <3> SUFFICES ASSUME backend = "redis", program = "serial"
                 PROVE  /\ \A x \in Ids : store[x].here /\ store[x].user =>
                              x \in index' \/ \E d \in Clients : Leaves(d, x)'
                        /\ \A d \in Clients : KnowsIndex(d)'
      BY <1>1 DEF Indexed, setting
    <3>1. op[c].seen = index
      BY <1>1 DEF IInv, Indexed, KnowsIndex, p
    <3>2. ASSUME NEW x \in Ids, store[x].here, store[x].user, x \notin index'
          PROVE  \E d \in Clients : Leaves(d, x)'
      <4>1. x = id \/ x \notin index
        BY <1>1, <2>1, <3>1, <3>2
      <4>2. CASE x = id
        <5>1. Leaves(c, x)'
          BY <1>5, <2>1, <4>2 DEF Leaves
        <5> QED BY <5>1
      <4>3. CASE x \notin index
        <5>1. PICK d \in Clients : Leaves(d, x)
          BY <3>2, <4>3 DEF IInv, Indexed
        <5>2. d = c
          BY <5>1, <1>3, Alone, EmptyPlan, NothingDone DEF Leaves
        <5>3. Leaves(c, x)'
          BY <1>5, <2>1, <5>1, <5>2 DEF Leaves, id
        <5> QED BY <5>3
      <4> QED BY <4>1, <4>2, <4>3
    <3>3. ASSUME NEW d \in Clients PROVE KnowsIndex(d)'
      BY <1>3, <2>1, <2>7, Alone, NothingKnown
    <3> QED BY <3>2, <3>3
  <2> QED BY <2>8, <2>9, <2>10 DEF IInv
<1>7. CASE p \notin Deleting
  <2>1. o.plan = <<>> /\ p \in Adding \union Removing
        /\ (Head(p) = "add" <=> p \in Adding) /\ (Head(p) = "remove" <=> p \in Removing)
    BY <1>1, <1>2, <1>5, <1>7, Classes
  <2>2. /\ op' \in [Clients -> Ops] /\ \A d \in Clients \ {c} : op'[d] = op[d]
        /\ op'[c].plan = <<>> /\ OpFits(c)' /\ Stands(c)' /\ KnowsIndex(c)'
        /\ op'[c].to = op[c].to \/ op'[c].to = NoLogin
        /\ Works(c)' => Works(c) /\ op'[c].id = op[c].id
    <3>1. UNCHANGED <<setting, login>>
      BY <1>1
    <3> QED BY <1>1, <1>3, <1>5, <2>1, <3>1, LastCall DEF id
  <2>3. TypeOK' /\ LoginsNamed' /\ (\A d \in Clients : OpFits(d)') /\ Exclusive'
    <3>1. store' \in [Ids -> Cells] /\ index' \in SUBSET Ids /\ ended' \in SUBSET Ids
      BY <1>1, <1>3, <1>4 DEF TypeOK
    <3> QED BY <1>1, <1>3, <2>2, <3>1, KeepsFit
  <2>4. ReadStands' /\ Twins' /\ StaysOut'
    BY <1>1, <1>7, <2>2, KeepsRecords DEF p
  <2>5. Indexed'
    <3> SUFFICES ASSUME backend = "redis", program = "serial"
                 PROVE  /\ \A x \in Ids : store[x].here /\ store[x].user =>
                              x \in index' \/ \E d \in Clients : Leaves(d, x)'
                        /\ \A d \in Clients : KnowsIndex(d)'
      BY <1>1 DEF Indexed, setting
    <3>1. op[c].seen = index /\ (p \in Removing => ~store[id].here)
      BY <1>1 DEF IInv, Indexed, KnowsIndex, p, id
    <3>2. ASSUME NEW x \in Ids, store[x].here, store[x].user PROVE x \in index'
      <4>1. CASE x \in index
        BY <1>1, <2>1, <3>1, <3>2, <4>1
      <4>2. CASE x \notin index
        <5>1. PICK d \in Clients : Leaves(d, x)
          BY <3>2, <4>2 DEF IInv, Indexed
        <5>2. d = c
          BY <5>1, <1>3, Alone, EmptyPlan, NothingDone DEF Leaves
        <5>3. x = id /\ p \in Adding
          BY <1>7, <5>1, <5>2 DEF Leaves, id, p
        <5> QED BY <1>1, <2>1, <5>3
      <4> QED BY <4>1, <4>2
    <3>3. ASSUME NEW d \in Clients PROVE KnowsIndex(d)'
      BY <1>3, <2>2, Alone, NothingKnown
    <3> QED BY <3>2, <3>3
  <2> QED BY <2>3, <2>4, <2>5 DEF IInv
<1> QED BY <1>6, <1>7

------------------------------------------------------------------------------
(* Writing                                                                  *)

\* Whoever is at work in a careful program has an id of its own.
LEMMA CarefulUses ==
  ASSUME IInv, program = "careful", NEW d \in Clients, Works(d)
  PROVE  Used(op[d].id) \/ (op[d].to = op[d].id /\ Drawn(d))
<1>1. OpFits(d) /\ op[d].plan \in Plans /\ op[d] # NoOp
  BY ClientTyped DEF Works
<1>2. op[d].plan # <<>> /\ op[d].plan # <<"list">> /\ op[d].plan \notin Removing
  BY <1>1 DEF OpFits
<1> QED BY <1>1, <1>2 DEF OpFits, Plans, Writing, Creates, Updates, Rotates

\* What a client does to its login when it writes.
LEMMA PutFacts ==
  ASSUME IInv, NEW c \in Clients, Put(c)
  PROVE  LET o == op[c]
         IN  /\ o.to \in Ids /\ o.id \in Ids /\ o.plan \in Writing /\ o.plan # <<>> /\ Head(o.plan) = "put"
             /\ (Creates(c) \/ Updates(c) \/ Rotates(c))
             /\ Creates(c) => ~o.rec.here /\ ~o.rec.user /\ login'[o.to] = o.to /\ o.to = o.id /\ ~Used(o.to)
             /\ Updates(c) => o.rec.here /\ login'[o.to] = login[o.id] /\ o.to = o.id /\ Used(o.id)
             /\ Rotates(c) => o.rec.here /\ login'[o.to] = login[o.id] /\ Used(o.id) /\ ~Used(o.to)
             /\ o.plan \in Storing => Creates(c) \/ Updates(c)
             /\ o.plan \in Rotating => Rotates(c)
             /\ login' \in [Ids -> Ids \union {NoLogin}]
             /\ \A x \in Ids : x # o.to => login'[x] = login[x]
             /\ \A x \in Ids : Used(x) => login'[x] = login[x] /\ Used(x)'
             /\ login'[o.to] \in Ids /\ login'[o.to] # NoLogin
<1>1. TypeOK /\ LoginsNamed /\ OpFits(c)
  BY DEF IInv
<1>2. op[c].plan \in Plans /\ op[c].plan # <<>> /\ Head(op[c].plan) = "put"
      /\ login' = [login EXCEPT ![op[c].to] = IF op[c].rec.here THEN login[op[c].id] ELSE op[c].to]
  BY ClientTyped DEF Put, Calls
<1>3. op[c].plan \in Writing
  BY <1>2, PutNext
<1>4. op[c].to \in Ids /\ op[c].id \in Ids
  BY <1>1, <1>3 DEF OpFits
<1>5. /\ (op[c].plan \in Storing => Creates(c) \/ Updates(c)) /\ (op[c].plan \in Rotating => Rotates(c))
      /\ (Creates(c) \/ Updates(c) \/ Rotates(c))
  BY <1>1, <1>3 DEF OpFits, Writing
<1>6. Used(op[c].id) => op[c].rec.here
  BY <1>1, <1>2, <1>3 DEF OpFits
<1>7. login'[op[c].to] = (IF op[c].rec.here THEN login[op[c].id] ELSE op[c].to)
      /\ \A x \in Ids : x # op[c].to => login'[x] = login[x]
  BY <1>1, <1>2, <1>4 DEF TypeOK
<1>8. Creates(c) => ~op[c].rec.here /\ ~op[c].rec.user /\ op[c].to = op[c].id /\ ~Used(op[c].to)
  BY DEF Creates, NoRecord, Drawn
<1>9. Updates(c) => op[c].rec.here /\ op[c].to = op[c].id /\ Used(op[c].id)
  BY <1>6 DEF Updates
<1>10. Rotates(c) => op[c].rec.here /\ Used(op[c].id) /\ ~Used(op[c].to)
  BY <1>6 DEF Rotates, Drawn
<1>11. login'[op[c].to] \in Ids /\ login'[op[c].to] # NoLogin
  BY <1>1, <1>4, <1>5, <1>7, <1>8, <1>9, <1>10, IdsAssumption DEF Used, TypeOK
<1>12. ASSUME NEW x \in Ids, Used(x) PROVE login'[x] = login[x] /\ Used(x)'
  BY <1>5, <1>7, <1>8, <1>9, <1>10, <1>12 DEF Used
<1>13. login' \in [Ids -> Ids \union {NoLogin}]
  BY <1>1, <1>2, <1>4 DEF TypeOK
<1> QED BY <1>2, <1>3, <1>4, <1>5, <1>7, <1>8, <1>9, <1>10, <1>11, <1>12, <1>13

\* The record that is written.
LEMMA PutRecord ==
  ASSUME IInv, NEW c \in Clients, Put(c)
  PROVE  /\ store' \in [Ids -> Cells] /\ store'[op[c].to].here
         /\ \A x \in Ids : x # op[c].to => store'[x] = store[x]
         /\ store'[op[c].to].user = (op[c].user \/ (op[c].id = op[c].to /\ op[c].rec.user))
         /\ op[c].add = {} => store'[op[c].to].data = Read(op[c]).data
         /\ Read(op[c]) \in Cells
         /\ UNCHANGED <<setting, index, ended>>
<1>1. TypeOK /\ op[c] \in Ops /\ op[c].to \in Ids /\ op[c].id \in Ids /\ op[c].rec \in Cells
      /\ op[c].add \subseteq Fields /\ op[c].user \in BOOLEAN
  BY ClientTyped, PutFacts DEF IInv
<1>2. UNCHANGED <<setting, index, ended>> /\ store' = [store EXCEPT ![op[c].to] =
         [here |-> TRUE, user |-> op[c].user \/ (op[c].id = op[c].to /\ op[c].rec.user),
          data |-> Read(op[c]).data \union op[c].add]]
  BY DEF Put
<1>3. Read(op[c]) \in Cells
  BY <1>1 DEF Read, TypeOK
<1>4. (op[c].user \/ (op[c].id = op[c].to /\ op[c].rec.user)) \in BOOLEAN
      /\ Read(op[c]).data \union op[c].add \in SUBSET Fields
  BY <1>1, <1>3 DEF Cells
<1>5. store' \in [Ids -> Cells]
  BY <1>1, <1>2, <1>4 DEF TypeOK, Cells
<1> QED BY <1>1, <1>2, <1>3, <1>5 DEF TypeOK

\* What the client is left with.
LEMMA PutOn ==
  ASSUME IInv, NEW c \in Clients, Put(c)
  PROVE  /\ op' \in [Clients -> Ops] /\ \A d \in Clients \ {c} : op'[d] = op[d]
         /\ op[c].plan \in Touching => op'[c].plan = <<>>
         /\ op[c].plan \in Storing \ Touching =>
               op'[c].plan \in Adding /\ Head(op'[c].plan) = "getindex"
         /\ op[c].plan \in Rotating =>
               op'[c].plan \in Deleting /\ Head(op'[c].plan) \in {"get", "del"}
         /\ op'[c].plan # <<>> =>
               /\ op'[c].id = op[c].id /\ op'[c].to = op[c].to /\ op'[c].rec = NoRecord
               /\ op'[c].user = store'[op[c].to].user
         /\ op'[c].to = op[c].to \/ op'[c].to = NoLogin
         /\ Works(c)' => op'[c].id = op[c].id
         /\ OpFits(c)' /\ Stands(c)' /\ KnowsIndex(c)' /\ ~Holds(c)'
<1> DEFINE q == [Rest(c) EXCEPT !.user = store'[op[c].to].user, !.rec = NoRecord, !.add = {}]
<1>1. Proceed(c, q) /\ UNCHANGED setting /\ TypeOK
  BY DEF Put, IInv
<1>2. op[c].plan # <<>> /\ op[c].plan \in Plans /\ op[c].plan \in Writing /\ Head(op[c].plan) = "put"
      /\ op[c].to \in Ids /\ op[c].id \in Ids /\ OpFits(c)
  BY PutFacts, ClientTyped
<1>3. /\ op[c].plan \in Touching => Tail(op[c].plan) = <<>>
      /\ op[c].plan \in Storing \ Touching =>
            Tail(op[c].plan) \in Adding /\ Head(Tail(op[c].plan)) = "getindex"
      /\ op[c].plan \in Rotating =>
            Tail(op[c].plan) \in Deleting /\ Head(Tail(op[c].plan)) \in {"get", "del"}
  BY <1>2, PutNext
<1>4. q \in Ops /\ q.plan = Tail(op[c].plan) /\ q.id = op[c].id /\ q.to = op[c].to /\ q.rec = NoRecord
      /\ q.user = store'[op[c].to].user /\ q.look = op[c].look /\ q.found = op[c].found
  <2>1. Rest(c) \in Ops /\ Rest(c).plan = Tail(op[c].plan) /\ Rest(c).id = op[c].id
        /\ Rest(c).to = op[c].to /\ Rest(c).look = op[c].look /\ Rest(c).found = op[c].found
    BY <1>2, RestTyped
  <2>2. store'[op[c].to].user \in BOOLEAN
    BY <1>2, PutRecord DEF Cells
  <2> QED BY <2>1, <2>2, NothingDone DEF Ops
<1> HIDE DEF q
<1>5. /\ op' \in [Clients -> Ops] /\ \A d \in Clients \ {c} : op'[d] = op[d]
      /\ op'[c].plan = q.plan
      /\ op'[c] = q \/ op'[c] = NoOp
      /\ op'[c] = NoOp \/ q.plan # <<>> \/ q.look # {} \/ q.found # {}
      /\ q.plan # <<>> => op'[c] = q
  BY <1>1, <1>4, Proceeding
<1>6. op'[c].to = op[c].to \/ op'[c].to = NoLogin
  BY <1>4, <1>5 DEF NoOp
<1>7. Works(c)' => op'[c].id = op[c].id
  BY <1>4, <1>5 DEF Works
<1>8. \A x \in Ids : Used(x) => Used(x)'
  BY PutFacts
<1>9. (op[c].look # {} \/ op[c].found # {} => backend = "redis" /\ program # "careful")
      /\ \A x \in op[c].found : Used(x)'
  BY <1>2, <1>8, ClientTyped DEF OpFits
<1>10. OpFits(c)' /\ Stands(c)' /\ KnowsIndex(c)' /\ ~Holds(c)'
  <2>1. CASE op[c].plan \in Touching
    <3>1. q.plan = <<>>
      BY <1>3, <1>4, <2>1
    <3>2. CASE op'[c] = NoOp
      BY <3>2, NothingKnown
    <3>3. CASE op'[c] # NoOp
      <4>1. op'[c] = q /\ (q.look # {} \/ q.found # {})
        BY <1>5, <3>1, <3>3
      <4>2. OpFits(c)' /\ Stands(c)' /\ KnowsIndex(c)'
        BY <1>1, <1>4, <1>9, <3>1, <4>1, PlanOver
      <4>3. ~Holds(c)'
        BY <3>1, <4>1, EmptyPlan DEF Holds
      <4> QED BY <4>2, <4>3
    <3> QED BY <3>2, <3>3
  <2>2. CASE op[c].plan \in Storing \ Touching
    <3>1. q.plan \in Adding /\ Head(q.plan) = "getindex" /\ q.plan # <<>>
      BY <1>3, <1>4, <2>2, EmptyPlan
    <3>2. q.plan \notin Writing /\ q.plan \notin Storing /\ q.plan \notin Rotating
          /\ q.plan \notin Touching /\ q.plan \notin Deleting /\ q.plan \notin Removing
          /\ q.plan # <<"patch">> /\ q.plan # <<"list">>
      BY <3>1, Classes DEF Writing
    <3>3. op'[c] = q
      BY <1>5, <3>1
    <3>4. Used(op[c].id)'
      <4>1. op[c].to = op[c].id
        BY <2>2, PutFacts
      <4>2. login'[op[c].to] # NoLogin
        BY PutFacts
      <4> QED BY <1>4, <3>3, <4>1, <4>2 DEF Used
    <3>5. OpFits(c)'
      BY <1>1, <1>2, <1>4, <1>9, <3>1, <3>2, <3>3, <3>4 DEF OpFits, setting
    <3>6. ~Holds(c)'
      BY <3>2, <3>3 DEF Holds
    <3> QED BY <3>1, <3>2, <3>3, <3>5, <3>6 DEF Stands, KnowsIndex
  <2>3. CASE op[c].plan \in Rotating
    <3>1. q.plan \in Deleting /\ Head(q.plan) \in {"get", "del"} /\ q.plan # <<>>
      BY <1>3, <1>4, <2>3, EmptyPlan
    <3>2. q.plan \notin Writing /\ q.plan \notin Storing /\ q.plan \notin Rotating
          /\ q.plan \notin Touching /\ q.plan \notin Adding /\ q.plan \notin Removing
          /\ q.plan # <<"patch">> /\ q.plan # <<"list">>
      BY <3>1, Classes DEF Writing
    <3>3. op'[c] = q
      BY <1>5, <3>1
    <3>4. Used(op[c].id)'
      <4>1. Used(op[c].id)
        BY <2>3, PutFacts
      <4>2. login'[op[c].id] # NoLogin
        BY <1>2, <1>8, <4>1 DEF Used
      <4> QED BY <1>4, <3>3, <4>2 DEF Used
    <3>5. ~q.rec.here
      BY <1>4 DEF NoRecord
    <3>6. OpFits(c)'
      BY <1>1, <1>2, <1>4, <1>9, <3>1, <3>2, <3>3, <3>4, <3>5 DEF OpFits, setting
    <3>7. ~Holds(c)'
      BY <3>2, <3>3 DEF Holds
    <3> QED BY <3>1, <3>2, <3>3, <3>6, <3>7 DEF Stands, KnowsIndex
  <2> QED BY <1>2, <2>1, <2>2, <2>3 DEF Writing
<1>11. /\ op[c].plan \in Touching => op'[c].plan = <<>>
       /\ op[c].plan \in Storing \ Touching =>
             op'[c].plan \in Adding /\ Head(op'[c].plan) = "getindex"
       /\ op[c].plan \in Rotating =>
             op'[c].plan \in Deleting /\ Head(op'[c].plan) \in {"get", "del"}
  BY <1>3, <1>4, <1>5
<1>12. op'[c].plan # <<>> =>
         /\ op'[c].id = op[c].id /\ op'[c].to = op[c].to /\ op'[c].rec = NoRecord
         /\ op'[c].user = store'[op[c].to].user
  BY <1>4, <1>5
<1> QED BY <1>5, <1>6, <1>7, <1>10, <1>11, <1>12

\* The login that is written for belongs to nobody else.
LEMMA PutAlone ==
  ASSUME IInv, NEW c \in Clients, Put(c), program # "any", NEW d \in Clients, d # c, Works(d)
  PROVE  /\ op[d].id \in Ids /\ login'[op[d].id] = login[op[d].id]
         /\ Used(op[d].id) => login'[op[c].to] # login[op[d].id] /\ op[d].id # op[c].to
<1>1. program = "careful"
  <2>1. op[c] # NoOp /\ op[d] # NoOp
    BY PutFacts, ClientTyped DEF Works
  <2> QED BY <2>1 DEF IInv, Exclusive, TypeOK
<1>2. op[d].id \in Ids /\ (Used(op[d].id) \/ (op[d].to = op[d].id /\ Drawn(d)))
  BY <1>1, CarefulUses DEF Works
<1>3. login'[op[d].id] = login[op[d].id]
  <2>1. CASE Used(op[d].id)
    BY <1>2, <2>1, PutFacts
  <2>2. CASE op[d].to = op[d].id /\ Drawn(d)
    BY <1>2, <2>2, PutFacts DEF Drawn
  <2> QED BY <1>2, <2>1, <2>2
<1>4. ASSUME Used(op[d].id) PROVE login'[op[c].to] # login[op[d].id] /\ op[d].id # op[c].to
  <2>1. Used(login[op[d].id]) /\ login[op[d].id] # NoLogin
    BY <1>2, <1>4 DEF IInv, LoginsNamed, Used
  <2>2. CASE Creates(c)
    BY <2>1, <2>2, <1>4, PutFacts
  <2>3. CASE ~Creates(c)
    <3>1. Works(c) /\ Used(op[c].id) /\ login'[op[c].to] = login[op[c].id]
          /\ (op[c].to = op[c].id \/ ~Used(op[c].to))
      BY <2>3, PutFacts, ClientTyped DEF Works
    <3>2. login[op[c].id] # login[op[d].id]
      BY <1>1, <3>1 DEF IInv, Exclusive
    <3> QED BY <1>4, <3>1, <3>2
  <2> QED BY <2>2, <2>3
<1> QED BY <1>2, <1>3, <1>4

\* Who writes does so for the only record of its login.
LEMMA PutStands ==
  ASSUME IInv, NEW c \in Clients, Put(c), program # "any", ~Creates(c)
  PROVE  /\ op[c].id \notin ended
         /\ store[op[c].id].here => Read(op[c]).data = store[op[c].id].data
         /\ \A x \in Ids : backend # "sql" /\ login[x] = login[op[c].id] /\ store[x].here => x = op[c].id
<1>1. op[c].plan \in Writing /\ op[c].rec.here
  BY PutFacts
<1>2. Stands(c) /\ Holds(c)
  BY <1>1 DEF IInv, ReadStands, Holds
<1> QED BY <1>2 DEF Stands, Read

\* A record is written: the step that could bring a session back.
LEMMA PutStep ==
  ASSUME IInv, NEW c \in Clients, Put(c)
  PROVE  IInv'
<1>0. PICK to \in Ids, id \in Ids : to = op[c].to /\ id = op[c].id
  BY PutFacts
<1> USE <1>0
<1>1. to \in Ids /\ id \in Ids /\ op[c].plan \in Writing /\ op[c].plan # <<>> /\ op[c] # NoOp
      /\ op[c].plan \notin Deleting /\ op[c].plan \notin Adding
  BY PutFacts, ClientTyped, Classes
<1>2. TypeOK /\ LoginsNamed
  BY DEF IInv
<1>3. op' \in [Clients -> Ops] /\ \A d \in Clients \ {c} : op'[d] = op[d]
  BY PutOn
<1>4. UNCHANGED <<setting, index, ended>> /\ store' \in [Ids -> Cells] /\ store'[to].here
      /\ \A x \in Ids : x # to => store'[x] = store[x]
  BY PutRecord
<1>5. /\ login' \in [Ids -> Ids \union {NoLogin}]
      /\ \A x \in Ids : x # to => login'[x] = login[x]
      /\ \A x \in Ids : Used(x) => login'[x] = login[x] /\ Used(x)'
      /\ login'[to] \in Ids /\ login'[to] # NoLogin
  BY PutFacts
<1>6. TypeOK'
  BY <1>2, <1>3, <1>4, <1>5 DEF TypeOK, setting
<1>7. LoginsNamed'
  <2>1. ASSUME NEW x \in Ids, login'[x] # NoLogin
        PROVE  login'[x] \in Ids /\ login'[login'[x]] # NoLogin /\ login'[login'[x]] = login'[x]
    <3>1. CASE Used(x)
      <4>1. login'[x] = login[x] /\ login[x] \in Ids /\ Used(login[x]) /\ login[login[x]] = login[x]
        BY <1>2, <1>5, <2>1, <3>1 DEF TypeOK, LoginsNamed, Used
      <4> QED BY <1>5, <4>1 DEF Used
    <3>2. CASE ~Used(x)
      <4>1. x = to
        BY <1>5, <2>1, <3>2 DEF Used
      <4>2. CASE Creates(c)
        BY <1>1, <1>5, <4>1, <4>2, PutFacts
      <4>3. CASE ~Creates(c)
        <5>1. login'[to] = login[id] /\ Used(id)
          BY <4>3, PutFacts
        <5>2. Used(login[id]) /\ login[login[id]] = login[id] /\ login[id] \in Ids
          BY <1>1, <1>2, <5>1 DEF LoginsNamed, TypeOK, Used
        <5> QED BY <1>5, <4>1, <5>1, <5>2 DEF Used
      <4> QED BY <4>2, <4>3
    <3> QED BY <3>1, <3>2
  <2>2. ASSUME NEW x \in Ids, store'[x].here \/ x \in ended PROVE Used(x)'
    BY <1>2, <1>4, <1>5, <2>2 DEF LoginsNamed, Used
  <2> QED BY <1>4, <2>1, <2>2 DEF LoginsNamed, Used
<1>8. ASSUME NEW d \in Clients PROVE OpFits(d)'
  <2>1. CASE d = c
    BY <2>1, PutOn
  <2>2. CASE d # c
    <3>1. op[d].plan \in Writing /\ Drawn(d) => Drawn(d)'
      <4> SUFFICES ASSUME op[d].plan \in Writing, Drawn(d) PROVE Drawn(d)'
        OBVIOUS
      <4>1. op'[d] = op[d] /\ op[d].to \in Ids /\ ~Used(op[d].to) /\ op[d].to # to
        BY <1>3, <2>2 DEF OpFits, Drawn, IInv
      <4>2. op'[c].to # op[d].to
        BY <4>1, IdsAssumption, PutOn
      <4>3. ASSUME NEW e \in Clients, e # d PROVE op'[e].to # op'[d].to
        BY <1>3, <4>1, <4>2, <4>3 DEF Drawn
      <4>4. ~Used(op[d].to)'
        BY <1>5, <4>1 DEF Used
      <4> QED BY <4>3, <4>4 DEF Drawn
    <3> QED BY <1>2, <1>3, <1>4, <1>5, <2>2, <3>1, OthersFit DEF IInv
  <2> QED BY <2>1, <2>2
<1>9. Exclusive'
  <2>1. ASSUME program # "any", NEW d \in Clients \ {c}, Works(d)', Works(c)',
               login'[op'[d].id] = login'[op'[c].id], login'[op'[c].id] # NoLogin
        PROVE  FALSE
    <3>1. Works(d) /\ op'[d] = op[d] /\ op'[c].id = id
      BY <1>3, <2>1, PutOn DEF Works
    <3>2. login'[op[d].id] = login[op[d].id] /\ Used(op[d].id)
      BY <2>1, <3>1, PutAlone DEF Used
    <3>3. login'[to] # login[op[d].id]
      BY <2>1, <3>1, <3>2, PutAlone
    <3>4. login'[id] # login[op[d].id]
      <4>1. CASE id = to
        BY <3>3, <4>1
      <4>2. CASE id # to
        BY <3>3, <4>2, <1>1, <1>5, PutFacts
      <4> QED BY <4>1, <4>2
    <3> QED BY <2>1, <3>1, <3>2, <3>4
  <2>2. ASSUME program # "any", NEW x \in Clients, NEW y \in Clients, Works(x)', Works(y)',
               login'[op'[x].id] = login'[op'[y].id], login'[op'[x].id] # NoLogin, x # c, y # c
        PROVE  x = y
    <3>1. Works(x) /\ op'[x] = op[x] /\ Works(y) /\ op'[y] = op[y]
      BY <1>3, <2>2 DEF Works
    <3>2. login'[op[x].id] = login[op[x].id] /\ login'[op[y].id] = login[op[y].id]
      BY <2>2, <3>1, PutAlone
    <3> QED BY <2>2, <3>1, <3>2 DEF IInv, Exclusive, Used
  <2>3. ASSUME program = "serial", NEW x \in Clients, NEW y \in Clients, op'[x] # NoOp,
     op'[y] # NoOp
        PROVE  x = y
    BY <1>1, <1>3, <2>3 DEF IInv, Exclusive
  <2>4. ASSUME program # "any", NEW x \in Clients, NEW y \in Clients, Works(x)', Works(y)',
               login'[op'[x].id] = login'[op'[y].id], login'[op'[x].id] # NoLogin
        PROVE  x = y
    <3>1. CASE x = c /\ y # c
      BY <2>1, <2>4, <3>1
    <3>2. CASE y = c /\ x # c
      BY <2>1, <2>4, <3>2
    <3>3. CASE x # c /\ y # c
      BY <2>2, <2>4, <3>3
    <3> QED BY <3>1, <3>2, <3>3
  <2> QED BY <1>4, <2>3, <2>4 DEF Exclusive, Used, setting
<1>10. ReadStands'
  <2>1. ASSUME program # "any", NEW d \in Clients \ {c} PROVE Stands(d)'
    <3> SUFFICES ASSUME Holds(d)
                 PROVE  /\ op[d].id \notin ended
                        /\ store'[op[d].id].here => store'[op[d].id].data = op[d].rec.data
                        /\ \A x \in Ids : backend # "sql" /\ login'[x] = login'[op[d].id] /\ store'[x].here =>
                              x = op[d].id
      BY <1>3, <1>4 DEF Stands, Holds, setting
    <3>1. OpFits(d) /\ op[d].plan \in Writing /\ op[d].rec.here /\ op[d].id \in Ids /\ Works(d)
      BY ClientTyped, EmptyPlan DEF Holds, OpFits, Works
    <3>2. Used(op[d].id)
      BY <3>1 DEF OpFits, Writing, Creates, Updates, Rotates, NoRecord
    <3>3. login'[op[d].id] = login[op[d].id] /\ login'[to] # login[op[d].id] /\ op[d].id # to
      BY <2>1, <3>1, <3>2, PutAlone
    <3>4. Stands(d)
      BY <2>1 DEF IInv, ReadStands
    <3> QED BY <1>4, <1>5, <3>1, <3>3, <3>4 DEF Stands
  <2> QED BY <1>4, <2>1, PutOn DEF ReadStands, setting
<1>11. Twins'
  <2>1. ASSUME program # "any", backend # "sql", NEW y \in Ids, y # to, store[y].here,
               login[y] = login'[to]
        PROVE  /\ store'[to].data = store[y].data
               /\ Joins(c, to, y)'
    <3>1. ~Creates(c)
      <4>1. Used(login[y])
        BY <1>2, <1>5, <2>1 DEF LoginsNamed, Used
      <4> QED BY <2>1, <4>1, PutFacts
    <3>2. login'[to] = login[id]
      BY <3>1, PutFacts
    <3>3. y = id /\ Read(op[c]).data = store[id].data
      BY <2>1, <3>1, <3>2, PutStands
    <3>4. Rotates(c) /\ op[c].plan \notin Storing
      BY <2>1, <3>1, <3>3, PutFacts
    <3>5. store'[to].data = store[id].data
      BY <3>3, <3>4, PutRecord DEF Rotates
    <3>6. op'[c].plan \in Deleting /\ op'[c].plan # <<>>
      BY <1>1, <3>4, PutOn, EmptyPlan DEF Writing
    <3>7. op'[c].id = id /\ op'[c].to = to
      BY <3>6, PutOn
    <3>8. Joins(c, to, y)'
      BY <3>3, <3>6, <3>7 DEF Joins
    <3> QED BY <3>3, <3>5, <3>8
  <2>2. ASSUME program # "any", backend # "sql", NEW x \in Ids, NEW y \in Ids, x # y, x # to,
     y # to,
               store[x].here, store[y].here, login[x] = login[y]
        PROVE  /\ store[x].data = store[y].data
               /\ \E d \in Clients : Joins(d, x, y)'
    <3>1. store[x].data = store[y].data /\ \E d \in Clients : Joins(d, x, y)
      BY <2>2 DEF IInv, Twins
    <3>2. PICK d \in Clients : Joins(d, x, y)
      BY <3>1
    <3>3. Joins(d, x, y)'
      BY <1>1, <1>3, <3>2 DEF Joins
    <3> QED BY <3>1, <3>3
  <2>3. ASSUME program # "any", backend # "sql", NEW x \in Ids, NEW y \in Ids, x # y,
               store'[x].here, store'[y].here, login'[x] = login'[y]
        PROVE  /\ store'[x].data = store'[y].data
               /\ \E d \in Clients : Joins(d, x, y)'
    <3>1. CASE x = to
      <4>1. y # to /\ store[y].here /\ store'[y] = store[y] /\ login[y] = login'[to]
        BY <1>4, <1>5, <2>3, <3>1
      <4> QED BY <2>1, <2>3, <3>1, <4>1
    <3>2. CASE y = to
      <4>1. x # to /\ store[x].here /\ store'[x] = store[x] /\ login[x] = login'[to]
        BY <1>4, <1>5, <2>3, <3>2
      <4>2. store'[to].data = store[x].data /\ Joins(c, to, x)'
        BY <2>1, <2>3, <4>1
      <4>3. Joins(c, x, to)'
        BY <4>2 DEF Joins
      <4> QED BY <3>2, <4>1, <4>2, <4>3
    <3>3. CASE x # to /\ y # to
      BY <1>4, <1>5, <2>2, <2>3, <3>3
    <3> QED BY <3>1, <3>2, <3>3
  <2> QED BY <1>4, <2>3 DEF Twins, setting
<1>12. Indexed'
  <2> SUFFICES ASSUME backend = "redis", program = "serial"
               PROVE  /\ \A x \in Ids : store'[x].here /\ store'[x].user =>
                            x \in index \/ \E d \in Clients : Leaves(d, x)'
                      /\ \A d \in Clients : KnowsIndex(d)'
    BY <1>4 DEF Indexed, setting
  <2>1. ASSUME NEW x \in Ids, x # to, store[x].here, store[x].user PROVE x \in index
    <3>1. SUFFICES ASSUME x \notin index PROVE FALSE
      OBVIOUS
    <3>2. PICK d \in Clients : Leaves(d, x)
      BY <2>1, <3>1 DEF IInv, Indexed
    <3>3. d = c
      BY <3>2, <1>1, Alone, EmptyPlan, NothingDone DEF Leaves
    <3> QED BY <1>1, <3>2, <3>3 DEF Leaves
  <2>2. ASSUME store'[to].user PROVE to \in index \/ Leaves(c, to)'
    <3>1. op[c].user \/ (id = to /\ op[c].rec.user)
      BY <2>2, PutRecord
    <3>2. ~Rotates(c)
      BY <3>1 DEF Rotates
    <3>3. op[c].plan \in Storing /\ id = to
      BY <1>1, <3>2, PutFacts DEF Writing
    <3>4. CASE op[c].plan \in Touching
      <4>1. ~op[c].user
        BY <3>4 DEF IInv, OpFits
      <4>2. op[c].rec.user /\ ~Creates(c)
        BY <3>1, <4>1, PutFacts
      <4>3. Holds(c)
        BY <1>1, <4>2, PutFacts DEF Holds
      <4> QED BY <3>3, <4>2, <4>3 DEF IInv, Indexed, KnowsIndex
    <3>5. CASE op[c].plan \notin Touching
      <4>1. op'[c].plan \in Adding /\ op'[c].plan # <<>>
        BY <3>3, <3>5, PutOn, EmptyPlan
      <4>2. op'[c].id = id /\ op'[c].user = store'[to].user
        BY <4>1, PutOn
      <4>3. Leaves(c, to)'
        BY <2>2, <3>3, <4>1, <4>2 DEF Leaves
      <4> QED BY <4>3
    <3> QED BY <3>4, <3>5
  <2>3. ASSUME NEW d \in Clients PROVE KnowsIndex(d)'
    <3>1. CASE d = c
      BY <3>1, PutOn
    <3>2. CASE d # c
      BY <1>1, <1>3, <3>2, Alone, NothingKnown
    <3> QED BY <3>1, <3>2
  <2> QED BY <1>4, <2>1, <2>2, <2>3
<1>13. StaysOut'
  <2> SUFFICES ASSUME backend # "redis" \/ program # "any", NEW x \in ended
               PROVE  ~store'[x].here
    BY <1>4 DEF StaysOut, setting
  <2>1. x \in Ids /\ Used(x) /\ ~store[x].here
    BY <1>2 DEF TypeOK, LoginsNamed, StaysOut, IInv
  <2>2. x # to
    <3>1. CASE Updates(c)
      BY <3>1, PutFacts, PutStands DEF Updates, Creates, Drawn
    <3>2. CASE ~Updates(c)
      BY <2>1, <3>2, PutFacts
    <3> QED BY <3>1, <3>2
  <2> QED BY <1>4, <2>1, <2>2
<1> QED BY <1>6, <1>7, <1>8, <1>9, <1>10, <1>11, <1>12, <1>13 DEF IInv

------------------------------------------------------------------------------
(* The invariant and the theorem                                             *)

\* Nobody has signed in yet.
LEMMA InitInv == Init => IInv
<1> SUFFICES ASSUME Init PROVE IInv
  OBVIOUS
<1> USE DEF Init
<1>1. TypeOK
  BY NothingDone DEF TypeOK
<1>2. (\A id \in Ids : ~Used(id) /\ ~store[id].here) /\ ended = {} /\ index = {}
  BY DEF Used, NoRecord
<1>3. ASSUME NEW c \in Clients
      PROVE  /\ op[c] = NoOp /\ op[c].plan = <<>> /\ op[c].look = {} /\ op[c].found = {}
             /\ OpFits(c) /\ Stands(c) /\ KnowsIndex(c)
  <2>1. op[c] = NoOp /\ op[c].plan = <<>> /\ op[c].look = {} /\ op[c].found = {}
    BY DEF NoOp
  <2>2. ~Holds(c)
    BY <2>1, EmptyPlan DEF Holds
  <2>3. OpFits(c)
    BY <2>1, EmptyPlan DEF OpFits
  <2> QED BY <2>1, <2>2, <2>3, EmptyPlan DEF Stands, KnowsIndex
<1>4. LoginsNamed /\ Exclusive
  BY <1>2, <1>3 DEF LoginsNamed, Exclusive, Works
<1>5. ReadStands /\ Twins /\ Indexed /\ StaysOut
  BY <1>2, <1>3 DEF ReadStands, Twins, Indexed, StaysOut
<1> QED BY <1>1, <1>3, <1>4, <1>5 DEF IInv

\* Every step keeps the invariant.
LEMMA NextInv == IInv /\ [Next]_vars => IInv'
<1> SUFFICES ASSUME IInv, [Next]_vars PROVE IInv'
  OBVIOUS
<1>1. ASSUME NEW c \in Clients, Work(c) PROVE IInv'
  BY <1>1, GetStep, PutStep, PatchStep, DelStep, GetIndexStep, SetIndexStep, ListStep,
     LookNextStep, DestroyNextStep DEF Work
<1>2. ASSUME UNCHANGED vars PROVE IInv'
  <2>1. backend' = backend /\ program' = program /\ store' = store /\ index' = index
        /\ login' = login /\ ended' = ended /\ op' = op
    BY <1>2 DEF vars
  <2>2. TypeOK'
    BY <2>1 DEF IInv, TypeOK
  <2>3. LoginsNamed'
    BY <2>1 DEF IInv, LoginsNamed, Used
  <2>4. ASSUME NEW c \in Clients PROVE OpFits(c)'
    <3>1. OpFits(c)
      BY DEF IInv
    <3> QED BY <2>1, <3>1 DEF OpFits, Creates, Updates, Rotates, Drawn, Used
  <2>5. Exclusive'
    BY <2>1 DEF IInv, Exclusive, Works, Used
  <2>6. ReadStands'
    BY <2>1 DEF IInv, ReadStands, Stands, Holds
  <2>7. Twins'
    BY <2>1 DEF IInv, Twins, Joins
  <2>8. Indexed'
    BY <2>1 DEF IInv, Indexed, KnowsIndex, Leaves, Holds
  <2>9. StaysOut'
    BY <2>1 DEF IInv, StaysOut
  <2> QED BY <2>2, <2>3, <2>4, <2>5, <2>6, <2>7, <2>8, <2>9 DEF IInv
<1> QED BY <1>1, <1>2, OperateStep, LapseStep DEF Next

\* The inductive invariant holds of every state, for any ids, clients and fields.
THEOREM Invariance == Spec => []IInv
  BY InitInv, NextInv, PTL DEF Spec

\* session.service.ts:200-216, redis.ts:127-225: who signs out, or is signed out
\* everywhere, stays out, and a sign-out of everybody spares nobody.
THEOREM SignOutAlwaysHolds == Spec => []SignOutHolds
<1>1. IInv => SignOutHolds
  <2> SUFFICES ASSUME IInv PROVE SignOutHolds
    OBVIOUS
  <2>1. ASSUME Busy = {}, NEW c \in Clients, NEW id PROVE ~Leaves(c, id)
    BY <2>1, EmptyPlan, NothingDone DEF Busy, Leaves
  <2>2. IndexReaches
    BY <2>1 DEF IndexReaches, IInv, Indexed
  <2> QED BY <2>2 DEF SignOutHolds, IInv
<1> QED BY <1>1, Invariance, PTL

------------------------------------------------------------------------------
(* Sessions and the logins they stand for                                  *)

\* Who has read a record and has it still to write.
LEMMA HoldersHold ==
  TypeOK => \A l \in Ids, c \in Clients : c \in Holders(l) <=> Holds(c) /\ login[op[c].id] = l
<1> SUFFICES ASSUME TypeOK, NEW l \in Ids, NEW c \in Clients
             PROVE  c \in Holders(l) <=> Holds(c) /\ login[op[c].id] = l
  OBVIOUS
<1>1. op[c].plan \in Plans
  BY DEF TypeOK, Ops
<1>2. ASSUME NEW p \in Plans PROVE (\E i \in 1..Len(p) : p[i] = "put") <=> p \in Writing
  <2>1. ASSUME p \in Writing PROVE \E i \in 1..Len(p) : p[i] = "put"
    <3>1. CASE p \in {<<"put">>, <<"put", "getindex", "add">>, <<"put", "del">>,
                       <<"put", "get", "del">>, <<"put", "get", "getindex", "remove", "del">>}
      <4>1. Len(p) >= 1 /\ p[1] = "put"
        BY <3>1
      <4> QED BY <4>1
    <3>2. CASE p \in {<<"get", "put">>, <<"get", "put", "getindex", "add">>,
                       <<"get", "put", "del">>, <<"get", "put", "get", "del">>,
                       <<"get", "put", "get", "getindex", "remove", "del">>}
      <4>1. Len(p) >= 2 /\ p[2] = "put"
        BY <3>2
      <4> QED BY <4>1
    <3> QED BY <2>1, <3>1, <3>2 DEF Writing, Storing, Touching, Rotating
  <2>2. ASSUME p \notin Writing, NEW i \in 1..Len(p), p[i] = "put" PROVE FALSE
    <3>1. CASE p \in Deleting
      BY <2>2, <3>1 DEF Deleting
    <3>2. CASE p \in Adding \union Removing
      BY <2>2, <3>2 DEF Adding, Removing
    <3>3. CASE p \in {<<>>, <<"patch">>, <<"list">>}
      BY <2>2, <3>3
    <3> QED BY <2>2, <3>1, <3>2, <3>3 DEF Plans
  <2> QED BY <2>1, <2>2
<1>3. op[c].plan \in Writing => op[c] # NoOp
  BY NothingDone, EmptyPlan
<1> QED BY <1>1, <1>2, <1>3 DEF Holders, Holds, Busy

\* The same of the next state.
LEMMA HoldersHoldNext ==
  (TypeOK => \A l \in Ids, c \in Clients : c \in Holders(l) <=> Holds(c) /\ login[op[c].id] = l)'
  BY HoldersHold, PTL

\* A record of the login, or whoever has read one, has its data.
Carries(l, D) == \/ \E x \in Records(l) : store[x].data = D
                 \/ \E c \in Holders(l) : op[c].rec.data = D

\* All that a login has gathered is in each of its records, and with whoever holds one.
OneData(l) ==
    /\ \A D : Carries(l, D) => Phase(l) = "live" /\ Gathered(l) = D
    /\ ~Live(l) => Gathered(l) = {} /\ Phase(l) = IF login[l] = l THEN "over" ELSE "none"
    /\ Live(l) => \E D : Carries(l, D)

\* The data of a login of a promised program are those of one login.
LEMMA OneLogin == IInv /\ Promised => \A l \in Ids : OneData(l)
<1> SUFFICES ASSUME IInv, Promised, NEW l \in Ids PROVE OneData(l)
  OBVIOUS
<1> USE DEF Promised
<1>1. \A x \in Records(l), y \in Records(l) : store[x].data = store[y].data
  BY DEF Records, IInv, Twins
<1>2. ASSUME NEW c \in Holders(l) PROVE c \in Clients /\ Holds(c) /\ login[op[c].id] = l
  BY HoldersHold DEF Holders, Busy, IInv
<1>3. ASSUME NEW c \in Holders(l), NEW x \in Records(l) PROVE op[c].rec.data = store[x].data
  <2>1. Stands(c)
    BY <1>2 DEF IInv, ReadStands
  <2>2. x = op[c].id
    BY <1>2, <2>1 DEF Stands, Records
  <2> QED BY <1>2, <2>1, <2>2 DEF Stands, Records
<1>4. ASSUME NEW c \in Holders(l), NEW d \in Holders(l) PROVE c = d
  <2>1. c \in Clients /\ d \in Clients /\ Holds(c) /\ Holds(d) /\ login[op[c].id] = login[op[d].id]
        /\ login[op[c].id] = l
    BY <1>2
  <2>2. Works(c) /\ Works(d) /\ Used(op[c].id)
    <3>1. op[c].id \in Ids /\ op[d].id \in Ids /\ op[c] # NoOp /\ op[d] # NoOp
      BY <2>1, ClientTyped, EmptyPlan, NothingDone DEF Holds, OpFits
    <3> QED BY <2>1, <3>1, IdsAssumption DEF Works, Used
  <2> QED BY <2>1, <2>2 DEF IInv, Exclusive
<1>5. ASSUME NEW x \in Records(l) PROVE Gathered(l) = store[x].data
  BY <1>1, <1>3, <1>5 DEF Gathered
<1>6. ASSUME NEW c \in Holders(l) PROVE Gathered(l) = op[c].rec.data
  BY <1>3, <1>4, <1>6 DEF Gathered
<1>7. ~Live(l) => Gathered(l) = {}
  BY DEF Live, Gathered
<1> QED BY <1>5, <1>6, <1>7 DEF OneData, Carries, Live, Phase

\* And they are so after a step.
LEMMA OneLoginNext == (IInv /\ Promised => \A l \in Ids : OneData(l))'
  BY OneLogin, PTL

\* Nothing happens to a login.
Still(l) == Phase(l)' = Phase(l) /\ Gathered(l)' = Gathered(l)

\* A step that changes no phase is a stutter of SessionLife.
LEMMA LifeStill ==
  ASSUME \A l \in Ids : Still(l)
  PROVE  [Life!Next]_(Life!vars)
  BY DEF Still, Life!vars

\* A login that appears begins its life.
LEMMA LifeBegins ==
  ASSUME NEW l \in Ids, \A k \in Ids \ {l} : Still(k), Phase(l) = "none", Phase(l)' = "live",
         Gathered(l)' \subseteq Fields
  PROVE  [Life!Next]_(Life!vars)
<1>1. Life!Begin(l)
  BY DEF Still, Life!Begin
<1> QED BY <1>1 DEF Life!Next

\* A login that gets data gathers it.
LEMMA LifeGathers ==
  ASSUME NEW l \in Ids, \A k \in Ids \ {l} : Still(k), Phase(l) = "live", Phase(l)' = "live",
         NEW fs \in SUBSET Fields, Gathered(l)' = Gathered(l) \union fs
  PROVE  [Life!Next]_(Life!vars)
<1>1. Life!Patch(l)
  BY DEF Still, Life!Patch
<1> QED BY <1>1 DEF Life!Next

\* A login that is over ends its life.
LEMMA LifeEnds ==
  ASSUME NEW l \in Ids, \A k \in Ids \ {l} : Still(k), Phase(l) = "live", Phase(l)' = "over",
         Gathered(l)' = {}
  PROVE  [Life!Next]_(Life!vars)
<1>1. Life!End(l)
  BY DEF Still, Life!End
<1> QED BY <1>1 DEF Life!Next

\* A login that has its data before and after a step has not changed, and neither has
\* one that nobody has.
LEMMA KeepsStill ==
  ASSUME IInv, IInv', Promised, UNCHANGED setting, NEW l \in Ids,
         Live(l) => \E D : Carries(l, D) /\ Carries(l, D)',
         ~Live(l) => ~Live(l)' /\ (login'[l] = l <=> login[l] = l)
  PROVE  Still(l)
<1>1. Promised'
  BY DEF Promised, setting
<1>2. OneData(l) /\ OneData(l)'
  BY <1>1, OneLogin, OneLoginNext
<1>3. CASE Live(l)
  <2>1. PICK D : Carries(l, D) /\ Carries(l, D)'
    BY <1>3
  <2>2. Phase(l) = "live" /\ Gathered(l) = D
    BY <1>2, <2>1 DEF OneData
  <2>3. Phase(l)' = "live" /\ Gathered(l)' = D
    BY <1>2, <2>1 DEF OneData
  <2> QED BY <2>2, <2>3 DEF Still
<1>4. CASE ~Live(l)
  <2>1. Gathered(l) = {} /\ Phase(l) = IF login[l] = l THEN "over" ELSE "none"
    BY <1>2, <1>4 DEF OneData
  <2>2. Gathered(l)' = {} /\ Phase(l)' = IF login'[l] = l THEN "over" ELSE "none"
    BY <1>2, <1>4 DEF OneData
  <2> QED BY <1>4, <2>1, <2>2 DEF Still
<1> QED BY <1>3, <1>4

\* Who goes on without a record to write, or with the one that is there.
LEMMA QuietStill ==
  ASSUME IInv, IInv', Promised, UNCHANGED <<setting, store, login>>, NEW c \in Clients,
         \A d \in Clients \ {c} : op'[d] = op[d], ~Holds(c),
         Holds(c)' => op'[c].id \in Ids /\ store[op'[c].id].here
  PROVE  [Life!Next]_(Life!vars)
<1>1. TypeOK /\ TypeOK'
  BY DEF IInv
<1>2. ASSUME NEW l \in Ids PROVE Still(l)
  <2>1. Records(l)' = Records(l)
    BY DEF Records
  <2>2. ASSUME NEW d \in Holders(l) PROVE d \in Holders(l)' /\ op'[d] = op[d]
    <3>1. d \in Clients /\ Holds(d) /\ login[op[d].id] = l
      BY <1>1, <2>2, HoldersHold DEF Holders, Busy
    <3>2. d # c /\ op'[d] = op[d]
      BY <3>1
    <3>3. Holds(d)' /\ login'[op'[d].id] = l
      BY <3>1, <3>2 DEF Holds
    <3> QED BY <1>1, <3>1, <3>2, <3>3, HoldersHoldNext
  <2>3. Live(l) => \E D : Carries(l, D) /\ Carries(l, D)'
    <3>3. ASSUME NEW d \in Holders(l) PROVE \E D : Carries(l, D) /\ Carries(l, D)'
      <4>1. PICK D : D = op[d].rec.data
        OBVIOUS
      <4>2. Carries(l, D) /\ Carries(l, D)'
        BY <2>2, <3>3, <4>1 DEF Carries
      <4> QED BY <4>2
    <3>4. ASSUME NEW x \in Records(l) PROVE \E D : Carries(l, D) /\ Carries(l, D)'
      <4>1. PICK D : D = store[x].data
        OBVIOUS
      <4>2. Carries(l, D) /\ Carries(l, D)'
        BY <2>1, <3>4, <4>1 DEF Carries
      <4> QED BY <4>2
    <3> QED BY <3>3, <3>4 DEF Live
  <2>4. ASSUME ~Live(l), Live(l)' PROVE FALSE
    <3>1. PICK d \in Holders(l)' : TRUE
      BY <2>1, <2>4 DEF Live
    <3>2. d \in Clients /\ Holds(d)' /\ login'[op'[d].id] = l
      BY <1>1, <3>1, HoldersHoldNext DEF Holders, Busy
    <3>3. CASE d = c
      <4>1. op'[c].id \in Records(l)
        BY <3>2, <3>3 DEF Records
      <4> QED BY <2>4, <4>1 DEF Live
    <3>4. CASE d # c
      <4>1. Holds(d) /\ login[op[d].id] = l
        BY <3>2, <3>4 DEF Holds
      <4>2. d \in Holders(l)
        BY <1>1, <3>2, <4>1, HoldersHold
      <4> QED BY <2>4, <4>2 DEF Live
    <3> QED BY <3>3, <3>4
  <2> QED BY <2>3, <2>4, KeepsStill
<1> QED BY <1>2, LifeStill

\* What a client goes on with, whatever it is.
LEMMA GoesOn ==
  ASSUME TypeOK, NEW c \in Clients, NEW o, Proceed(c, o)
  PROVE  /\ \A d \in Clients \ {c} : op'[d] = op[d]
         /\ op'[c].plan = o.plan /\ (o.plan # <<>> => op'[c] = o)
  BY NothingDone DEF TypeOK, Proceed

\* The calls between which no record is held.
LEMMA NotWriting ==
  ASSUME NEW p \in Plans, p # <<>>,
     Head(p) \in {"getindex", "add", "remove", "del", "patch", "list"}
  PROVE  p \notin Writing /\ Tail(p) \notin Writing /\ (Head(p) = "getindex" => Tail(Tail(p)) \notin Writing)
<1>1. CASE Head(p) \in {"getindex", "add", "remove"}
  BY <1>1, IndexNext, Classes, EmptyPlan
<1>2. CASE Head(p) \in {"del", "patch", "list"}
  BY <1>2, LastNext, Classes, EmptyPlan
<1> QED BY <1>1, <1>2

\* Operations begin without having read.
LEMMA OperateStill ==
  ASSUME IInv, IInv', Promised, NEW c \in Clients, Operate(c)
  PROVE  [Life!Next]_(Life!vars)
<1>1. PICK plan, id, to, add, user : Begin(c, plan, id, to, add, user)
  BY DEF Operate, Create, Update, Touch, Destroy, Rotate, SignOutAll
<1>2. op[c] = NoOp /\ UNCHANGED <<setting, store, login>>
  BY <1>1 DEF Begin
<1>3. \A d \in Clients \ {c} : op'[d] = op[d]
  BY <1>1, Begun
<1>4. op'[c].rec = NoRecord
  BY <1>1, Begun
<1>5. ~Holds(c) /\ ~Holds(c)'
  BY <1>2, <1>4, NothingDone, EmptyPlan DEF Holds, NoRecord
<1> QED BY <1>2, <1>3, <1>5, QuietStill

\* Who reads the record in order to write it holds the one that is there.
LEMMA GetStill ==
  ASSUME IInv, IInv', Promised, NEW c \in Clients, Get(c)
  PROVE  [Life!Next]_(Life!vars)
<1> DEFINE r == store[op[c].id]
           o == IF r.here THEN [Rest(c) EXCEPT !.rec = r] ELSE [op[c] EXCEPT !.plan = <<>>]
<1>1. Proceed(c, o) /\ UNCHANGED <<setting, store, login>> /\ op[c].plan \in Plans /\ op[c].plan # <<>>
      /\ Head(op[c].plan) = "get" /\ OpFits(c) /\ TypeOK
  BY ClientTyped DEF Get, Calls, IInv
<1>2. op[c].plan \in Writing \union Deleting
  BY <1>1, GetNext
<1>3. op[c].id \in Ids
  BY <1>1, <1>2 DEF OpFits
<1>4. ~Holds(c)
  <2> SUFFICES ASSUME op[c].plan \in Writing PROVE ~op[c].rec.here
    BY DEF Holds
  <2>1. Used(op[c].id)
    BY <1>1 DEF OpFits, Creates, Updates, Rotates, Writing
  <2> QED BY <1>1, <2>1 DEF OpFits
<1>5. o.id = op[c].id
  BY <1>1, RestTyped, ClientTyped DEF Ops
<1>6. ~r.here => o.plan = <<>>
  BY <1>1, ClientTyped DEF Ops
<1> HIDE DEF o
<1>7. \A d \in Clients \ {c} : op'[d] = op[d]
  BY <1>1, GoesOn
<1>8. op'[c].plan = o.plan /\ (o.plan # <<>> => op'[c] = o)
  BY <1>1, GoesOn
<1>9. ASSUME Holds(c)' PROVE op'[c].id \in Ids /\ store[op'[c].id].here
  <2>1. o.plan # <<>>
    BY <1>8, <1>9, EmptyPlan DEF Holds
  <2> QED BY <1>3, <1>5, <1>6, <1>8, <2>1
<1> QED BY <1>1, <1>4, <1>7, <1>9, QuietStill

\* The calls about the index, and those that make lists.
LEMMA IndexStill ==
  ASSUME IInv, IInv', Promised, NEW c \in Clients, GetIndex(c) \/ SetIndex(c) \/ List(c)
  PROVE  [Life!Next]_(Life!vars)
<1>1. TypeOK /\ UNCHANGED <<setting, store, login>> /\ op[c].plan \in Plans /\ op[c].plan # <<>>
      /\ Head(op[c].plan) \in {"getindex", "add", "remove", "list"}
  BY ClientTyped DEF GetIndex, SetIndex, List, Calls, IInv
<1>2. op[c].plan \notin Writing /\ Tail(op[c].plan) \notin Writing
      /\ (Head(op[c].plan) = "getindex" => Tail(Tail(op[c].plan)) \notin Writing)
  BY <1>1, NotWriting
<1>3. Rest(c) \in Ops /\ Rest(c).plan = Tail(op[c].plan) /\ op[c] \in Ops
  BY <1>1, RestTyped, ClientTyped
<1>4. PICK o : Proceed(c, o) /\ o.plan \notin Writing
  <2>1. CASE GetIndex(c)
    <3>1. [Rest(c) EXCEPT !.seen = index].plan \notin Writing
      BY <1>2, <1>3 DEF Ops
    <3>2. [op[c] EXCEPT !.plan = Tail(Tail(@))].plan \notin Writing
      BY <1>2, <1>3, <2>1 DEF Ops, GetIndex, Calls
    <3> QED BY <2>1, <3>1, <3>2 DEF GetIndex
  <2>2. CASE SetIndex(c)
    <3>1. [Rest(c) EXCEPT !.seen = {}].plan \notin Writing
      BY <1>2, <1>3 DEF Ops
    <3> QED BY <2>2, <3>1 DEF SetIndex
  <2>3. CASE List(c)
    <3>1. [Rest(c) EXCEPT !.look = index].plan \notin Writing
      BY <1>2, <1>3 DEF Ops
    <3> QED BY <2>3, <3>1 DEF List
  <2> QED BY <2>1, <2>2, <2>3
<1>5. (\A d \in Clients \ {c} : op'[d] = op[d]) /\ op'[c].plan = o.plan
  BY <1>1, <1>4, GoesOn
<1>6. ~Holds(c) /\ ~Holds(c)'
  BY <1>2, <1>4, <1>5 DEF Holds
<1> QED BY <1>1, <1>5, <1>6, QuietStill

\* A sign-out of everybody goes through its lists.
LEMMA ListsStill ==
  ASSUME IInv, IInv', Promised, NEW c \in Clients, LookNext(c) \/ DestroyNext(c)
  PROVE  [Life!Next]_(Life!vars)
<1>1. TypeOK /\ UNCHANGED <<setting, store, login>> /\ op[c].plan = <<>> /\ op[c] \in Ops
  BY ClientTyped DEF LookNext, DestroyNext, IInv
<1>2. <<"getindex", "remove">> \notin Writing /\ DestroyPlan \notin Writing /\ <<>> \notin Writing
  <2>1. <<"getindex", "remove">> \in Removing
    BY DEF Removing
  <2>2. DestroyPlan \in Deleting
    BY <1>1, PlansMade
  <2> QED BY <2>1, <2>2, Classes
<1>3. PICK o : /\ \A d \in Clients \ {c} : op'[d] = op[d]
               /\ op'[c].plan = o.plan /\ o.plan \notin Writing
  <2>1. CASE LookNext(c)
    <3>1. PICK id : Proceed(c, IF store[id].here
                        THEN [op[c] EXCEPT !.look = @ \ {id}, !.found = @ \union {id}]
                        ELSE [op[c] EXCEPT !.look = @ \ {id}, !.id = id, !.user = TRUE,
                                           !.plan = <<"getindex", "remove">>])
      BY <2>1 DEF LookNext
    <3>2. PICK q : q = IF store[id].here
                       THEN [op[c] EXCEPT !.look = @ \ {id}, !.found = @ \union {id}]
                       ELSE [op[c] EXCEPT !.look = @ \ {id}, !.id = id, !.user = TRUE,
                                          !.plan = <<"getindex", "remove">>]
      OBVIOUS
    <3>3. q.plan \notin Writing
      BY <1>1, <1>2, <3>2 DEF Ops
    <3>4. Proceed(c, q)
      BY <3>1, <3>2
    <3>5. (\A d \in Clients \ {c} : op'[d] = op[d]) /\ op'[c].plan = q.plan
      BY <1>1, <3>4, GoesOn
    <3> QED BY <3>3, <3>5, Zenon
  <2>2. CASE DestroyNext(c)
    <3>1. PICK id : op' = [op EXCEPT ![c] =
                              [NoOp EXCEPT !.plan = DestroyPlan, !.id = id, !.to = id,
                                           !.found = op[c].found \ {id}]]
      BY <2>2 DEF DestroyNext
    <3>2. PICK q : q = [NoOp EXCEPT !.plan = DestroyPlan, !.id = id, !.to = id,
                                    !.found = op[c].found \ {id}]
      OBVIOUS
    <3>3. q.plan = DestroyPlan
      BY <3>2 DEF NoOp
    <3>4. op' = [op EXCEPT ![c] = q]
      BY <3>1, <3>2
    <3>5. (\A d \in Clients \ {c} : op'[d] = op[d]) /\ op'[c] = q
      BY <1>1, <3>4 DEF TypeOK
    <3> QED BY <1>2, <3>3, <3>5, Zenon
  <2> QED BY <2>1, <2>2
<1>4. op[c].plan \notin Writing
  BY <1>1, <1>2
<1>5. ~Holds(c) /\ ~Holds(c)'
  BY <1>3, <1>4 DEF Holds
<1>6. UNCHANGED <<setting, store, login>> /\ \A d \in Clients \ {c} : op'[d] = op[d]
  BY <1>1, <1>3
<1> QED BY <1>5, <1>6, QuietStill

\* A record goes that nobody is about to write: with the last of its login the login ends.
LEMMA RemovedEnds ==
  ASSUME IInv, IInv', Promised, UNCHANGED <<setting, login>>, NEW id \in Ids,
         store' = [store EXCEPT ![id] = NoRecord],
         \A c \in Clients : Holds(c) => Holds(c)' /\ op'[c] = op[c],
         \A c \in Clients : Holds(c)' => Holds(c)
  PROVE  [Life!Next]_(Life!vars)
<1>1. TypeOK /\ TypeOK' /\ Promised' /\ LoginsNamed
  BY DEF IInv, Promised, setting
<1>2. (\A x \in Ids \ {id} : store'[x] = store[x]) /\ ~store'[id].here
  BY <1>1 DEF TypeOK, NoRecord
<1>3. ASSUME NEW l \in Ids
      PROVE  /\ Records(l)' = Records(l) \ {id} /\ Holders(l)' = Holders(l)
             /\ \A c \in Holders(l) : op'[c] = op[c]
  <2>1. Records(l)' = Records(l) \ {id}
    BY <1>2 DEF Records
  <2>2. ASSUME NEW c \in Clients PROVE c \in Holders(l)' <=> c \in Holders(l)
    BY <1>1, <1>3, HoldersHold, HoldersHoldNext
  <2>3. Holders(l) \subseteq Clients /\ Holders(l)' \subseteq Clients
    BY DEF Holders, Busy
  <2>4. ASSUME NEW c \in Holders(l) PROVE op'[c] = op[c]
    BY <1>1, <1>3, <2>3, <2>4, HoldersHold
  <2> QED BY <2>1, <2>2, <2>3, <2>4
<1>4. ASSUME NEW l \in Ids, NEW x \in Records(l), x # id
   PROVE \E D : Carries(l, D) /\ Carries(l, D)'
  <2>1. PICK D : D = store[x].data
    OBVIOUS
  <2>2. x \in Records(l)' /\ store'[x].data = D
    BY <1>2, <1>3, <1>4, <2>1 DEF Records
  <2>3. Carries(l, D) /\ Carries(l, D)'
    BY <1>4, <2>1, <2>2 DEF Carries
  <2> QED BY <2>3
<1>5. ASSUME NEW l \in Ids, NEW c \in Holders(l) PROVE \E D : Carries(l, D) /\ Carries(l, D)'
  <2>1. PICK D : D = op[c].rec.data
    OBVIOUS
  <2>2. c \in Holders(l)' /\ op'[c].rec.data = D
    BY <1>3, <1>5, <2>1
  <2>3. Carries(l, D) /\ Carries(l, D)'
    BY <1>5, <2>1, <2>2 DEF Carries
  <2> QED BY <2>3
<1>6. ASSUME NEW l \in Ids, Live(l) => Live(l)' PROVE Still(l)
  <2>1. Live(l) => \E D : Carries(l, D) /\ Carries(l, D)'
    <3> SUFFICES ASSUME Live(l) PROVE \E D : Carries(l, D) /\ Carries(l, D)'
      OBVIOUS
    <3>1. (\E x \in Records(l) : x # id) \/ \E c \in Holders(l) : TRUE
      BY <1>3, <1>6 DEF Live
    <3> QED BY <3>1, <1>4, <1>5
  <2>2. ~Live(l) => ~Live(l)'
    BY <1>3 DEF Live
  <2> QED BY <2>1, <2>2, KeepsStill
<1>7. CASE \A l \in Ids : Live(l) => Live(l)'
  BY <1>6, <1>7, LifeStill
<1>8. ASSUME NEW l \in Ids, Live(l), ~Live(l)' PROVE [Life!Next]_(Life!vars)
  <2>1. Records(l) = {id}
    BY <1>3, <1>8 DEF Live
  <2>2. login[id] = l /\ store[id].here /\ Used(id)
    BY <1>1, <2>1 DEF Records, LoginsNamed
  <2>3. login[l] = l
    BY <1>1, <2>2 DEF LoginsNamed
  <2>4. ASSUME NEW k \in Ids \ {l} PROVE Still(k)
    <3>1. id \notin Records(k)
      BY <2>2 DEF Records
    <3>2. Live(k) => Live(k)'
      BY <1>3, <3>1 DEF Live
    <3> QED BY <1>6, <3>2
  <2>5. OneData(l) /\ OneData(l)'
    BY <1>1, OneLogin, OneLoginNext
  <2>6. Phase(l) = "live"
    BY <1>8 DEF Phase
  <2>7. Phase(l)' = "over"
    BY <1>8, <2>3 DEF Phase
  <2>8. Gathered(l)' = {}
    BY <1>8, <2>5 DEF OneData
  <2> QED BY <2>4, <2>6, <2>7, <2>8, LifeEnds
<1> QED BY <1>7, <1>8

\* A session that expires ends its life.
LEMMA LapseEnds ==
  ASSUME IInv, IInv', Promised, NEW id \in Ids, Lapse(id)
  PROVE  [Life!Next]_(Life!vars)
<1>1. UNCHANGED <<setting, login, op>> /\ store' = [store EXCEPT ![id] = NoRecord]
  BY DEF Lapse
<1>2. ASSUME NEW c \in Clients PROVE Holds(c)' <=> Holds(c)
  BY <1>1 DEF Holds
<1> QED BY <1>1, <1>2, RemovedEnds

\* A session that is deleted ends its life.
LEMMA DelEnds ==
  ASSUME IInv, IInv', Promised, NEW c \in Clients, Del(c)
  PROVE  [Life!Next]_(Life!vars)
<1>1. UNCHANGED <<setting, login>> /\ store' = [store EXCEPT ![op[c].id] = NoRecord]
      /\ Proceed(c, Rest(c)) /\ op[c].plan \in Plans /\ op[c].plan # <<>> /\ Head(op[c].plan) = "del"
      /\ TypeOK /\ OpFits(c)
  BY ClientTyped DEF Del, Calls, IInv
<1>2. op[c].plan \in Deleting /\ Tail(op[c].plan) \notin Writing
  BY <1>1, NotWriting, LastNext
<1>3. op[c].id \in Ids /\ op[c].plan \notin Writing
  BY <1>1, <1>2, NotWriting DEF OpFits
<1>4. Rest(c).plan = Tail(op[c].plan)
  BY <1>1, RestTyped
<1>5. (\A d \in Clients \ {c} : op'[d] = op[d]) /\ op'[c].plan = Tail(op[c].plan)
  BY <1>1, <1>4, GoesOn
<1>6. ~Holds(c) /\ ~Holds(c)'
  BY <1>2, <1>3, <1>5 DEF Holds
<1>7. ASSUME NEW d \in Clients
      PROVE  /\ Holds(d) => Holds(d)' /\ op'[d] = op[d]
             /\ Holds(d)' => Holds(d)
  BY <1>5, <1>6 DEF Holds
<1> QED BY <1>1, <1>3, <1>7, RemovedEnds

\* Who holds a record has one.
LEMMA HeldIsUsed ==
  ASSUME IInv, NEW d \in Clients, Holds(d)
  PROVE  op[d].id \in Ids /\ Used(op[d].id) /\ op[d] # NoOp
<1>1. OpFits(d) /\ op[d].plan \in Writing /\ op[d].rec.here /\ op[d] # NoOp
  BY ClientTyped, EmptyPlan DEF Holds
<1> QED BY <1>1 DEF OpFits, Writing, Creates, Updates, Rotates, NoRecord

\* A record is written, for a login or for none: nothing happens to any other.
LEMMA OthersStill ==
  ASSUME IInv, IInv', Promised, UNCHANGED setting, NEW c \in Clients, NEW id \in Ids,
         \A x \in Ids \ {id} : store'[x] = store[x] /\ login'[x] = login[x],
         \A x \in Ids : Used(x) => login'[x] = login[x],
         \A d \in Clients \ {c} : op'[d] = op[d], ~Holds(c)',
         NEW l \in Ids, store[id].here => login[id] # l, login'[id] # l,
         Holds(c) => login[op[c].id] # l
  PROVE  Still(l)
<1>1. TypeOK /\ TypeOK'
  BY DEF IInv
<1>2. Records(l)' = Records(l) /\ \A x \in Records(l) : store'[x] = store[x]
  BY DEF Records
<1>3. ASSUME NEW d \in Clients PROVE /\ d \in Holders(l)' <=> d \in Holders(l)
                                     /\ d \in Holders(l) => op'[d] = op[d]
  <2>1. CASE d = c
    <3>1. c \notin Holders(l) /\ c \notin Holders(l)'
      BY <1>1, HoldersHold, HoldersHoldNext
    <3> QED BY <2>1, <3>1
  <2>2. CASE d # c
    <3>1. op'[d] = op[d] /\ (Holds(d)' <=> Holds(d))
      BY <2>2 DEF Holds
    <3>2. Holds(d) => login'[op[d].id] = login[op[d].id]
      BY HeldIsUsed
    <3> QED BY <1>1, <3>1, <3>2, HoldersHold, HoldersHoldNext
  <2> QED BY <2>1, <2>2
<1>4. Holders(l) \subseteq Clients /\ Holders(l)' \subseteq Clients
  BY DEF Holders, Busy
<1>5. Holders(l)' = Holders(l)
  BY <1>3, <1>4
<1>6. ASSUME NEW x \in Records(l) PROVE \E D : Carries(l, D) /\ Carries(l, D)'
  <2>1. PICK D : D = store[x].data
    OBVIOUS
  <2>2. x \in Records(l)' /\ store'[x].data = D
    BY <1>2, <1>6, <2>1
  <2>3. Carries(l, D) /\ Carries(l, D)'
    BY <1>6, <2>1, <2>2 DEF Carries
  <2> QED BY <2>3
<1>7. ASSUME NEW d \in Holders(l) PROVE \E D : Carries(l, D) /\ Carries(l, D)'
  <2>1. PICK D : D = op[d].rec.data
    OBVIOUS
  <2>2. d \in Holders(l)' /\ op'[d].rec.data = D
    BY <1>3, <1>4, <1>7, <2>1
  <2>3. Carries(l, D) /\ Carries(l, D)'
    BY <1>7, <2>1, <2>2 DEF Carries
  <2> QED BY <2>3
<1>8. Live(l) => \E D : Carries(l, D) /\ Carries(l, D)'
  BY <1>6, <1>7 DEF Live
<1>9. ~Live(l) => ~Live(l)'
  BY <1>2, <1>5 DEF Live
<1>10. login'[l] = l <=> login[l] = l
  BY IdsAssumption DEF Used
<1> QED BY <1>8, <1>9, <1>10, KeepsStill

\* A login whose data is D, and then D and more.
LEMMA Gathers ==
  ASSUME IInv, IInv', Promised, UNCHANGED setting, NEW l \in Ids, NEW D, NEW fs \in SUBSET Fields,
         Carries(l, D), Carries(l, D \union fs)', \A k \in Ids \ {l} : Still(k)
  PROVE  [Life!Next]_(Life!vars)
<1>1. OneData(l) /\ OneData(l)'
  <2>1. Promised'
    BY DEF Promised, setting
  <2> QED BY <2>1, OneLogin, OneLoginNext
<1>2. Phase(l) = "live" /\ Gathered(l) = D
  BY <1>1 DEF OneData
<1>3. Phase(l)' = "live" /\ Gathered(l)' = D \union fs
  <2>1. PICK E : E = D \union fs
    OBVIOUS
  <2>2. Carries(l, E)'
    BY <2>1
  <2>3. Phase(l)' = "live" /\ Gathered(l)' = E
    BY <1>1, <2>2 DEF OneData
  <2> QED BY <2>1, <2>3
<1> QED BY <1>2, <1>3, LifeGathers

\* The memory storage patches the record in place.
LEMMA PatchGathers ==
  ASSUME IInv, IInv', Promised, NEW c \in Clients, Patch(c)
  PROVE  [Life!Next]_(Life!vars)
<1> DEFINE id == op[c].id
<1>1. op[c].plan # <<>> /\ Head(op[c].plan) = "patch" /\ Proceed(c, Rest(c)) /\ UNCHANGED <<setting, login>>
      /\ store' = IF store[id].here
                  THEN [store EXCEPT ![id].data =
                           op[c].add \union (IF backend = "memory" THEN @ ELSE {})]
                  ELSE store
  BY DEF Patch, Calls
<1>2. op[c].plan \in Plans /\ OpFits(c) /\ op[c].add \in SUBSET Fields /\ TypeOK
  BY ClientTyped DEF IInv
<1>3. op[c].plan = <<"patch">> /\ op[c].plan \notin Writing /\ Tail(op[c].plan) \notin Writing
  BY <1>1, <1>2, LastNext, NotWriting
<1>4. id \in Ids /\ Used(id) /\ backend = "memory"
  BY <1>2, <1>3 DEF OpFits, Promised, TypeOK
<1>5. Rest(c).plan = Tail(op[c].plan)
  BY <1>1, RestTyped
<1>6. (\A d \in Clients \ {c} : op'[d] = op[d]) /\ op'[c].plan = Tail(op[c].plan)
  BY <1>1, <1>2, <1>5, GoesOn
<1>7. ~Holds(c) /\ ~Holds(c)'
  BY <1>3, <1>6 DEF Holds
<1>8. CASE ~store[id].here
  <2>1. UNCHANGED <<setting, store, login>>
    BY <1>1, <1>8
  <2> QED BY <1>6, <1>7, <2>1, QuietStill
<1>9. CASE store[id].here
  <2> DEFINE D == store[id].data
             fs == op[c].add
  <2>1. store'[id].here /\ store'[id].data = D \union fs /\ \A x \in Ids \ {id} : store'[x] = store[x]
    <3>1. store[id] \in Cells
      BY <1>2, <1>4 DEF TypeOK
    <3>2. store' = [store EXCEPT ![id].data = op[c].add \union @]
      BY <1>1, <1>4, <1>9
    <3> QED BY <1>2, <1>4, <1>9, <3>1, <3>2 DEF TypeOK, Cells
  <2>2. PICK l \in Ids : l = login[id]
    BY <1>2, <1>4 DEF TypeOK, Used
  <2>3. ASSUME NEW k \in Ids \ {l} PROVE Still(k)
    <3>1. login[id] # k /\ login'[id] # k
      BY <1>1, <2>2
    <3>2. \A x \in Ids : login'[x] = login[x]
      BY <1>1
    <3> HIDE DEF id
    <3> QED BY <1>1, <1>4, <1>6, <1>7, <2>1, <3>1, <3>2, OthersStill
  <2>4. PICK E : E = D
    OBVIOUS
  <2>5. id \in Records(l)
    BY <1>4, <1>9, <2>2 DEF Records
  <2>6. Carries(l, E)
    BY <2>4, <2>5 DEF Carries
  <2>7. PICK g \in SUBSET Fields : g = fs
    BY <1>2
  <2>8. \E x \in Records(l)' : store'[x].data = E \union g
    <3>1. id \in Ids /\ login'[id] = l /\ store'[id].here
      BY <1>1, <1>4, <2>1, <2>2
    <3>2. PICK i \in Ids : i = id
      BY <3>1
    <3>3. i \in Records(l)'
      BY <3>1, <3>2 DEF Records
    <3> QED BY <2>1, <2>4, <2>7, <3>2, <3>3
  <2>9. Carries(l, E \union g)'
    BY <2>8 DEF Carries
  <2> QED BY <1>1, <2>3, <2>6, <2>9, Gathers
<1> QED BY <1>8, <1>9

\* What is written, for which login.
LEMMA PutWrites ==
  ASSUME IInv, NEW c \in Clients, Put(c)
  PROVE  /\ store'[op[c].to].data = Read(op[c]).data \union op[c].add
         /\ op[c].add \in SUBSET Fields
<1>1. TypeOK /\ op[c] \in Ops /\ op[c].to \in Ids
  BY ClientTyped, PutFacts DEF IInv
<1>2. store' = [store EXCEPT ![op[c].to] =
         [here |-> TRUE, user |-> op[c].user \/ (op[c].id = op[c].to /\ op[c].rec.user),
          data |-> Read(op[c]).data \union op[c].add]]
  BY DEF Put
<1>3. store'[op[c].to] = [here |-> TRUE, user |-> op[c].user \/ (op[c].id = op[c].to /\ op[c].rec.user),
          data |-> Read(op[c]).data \union op[c].add]
  BY <1>1, <1>2 DEF TypeOK
<1> QED BY <1>1, <1>3 DEF Ops

\* An id that no login has stands for nothing.
LEMMA UnusedIsNone ==
  ASSUME IInv, Promised, NEW l \in Ids, ~Used(l)
  PROVE  Phase(l) = "none"
<1>1. TypeOK /\ LoginsNamed /\ login[l] # l
  BY IdsAssumption DEF IInv, Used
<1>2. ASSUME NEW x \in Records(l) PROVE FALSE
  BY <1>1, <1>2 DEF Records, LoginsNamed
<1>3. ASSUME NEW d \in Holders(l) PROVE FALSE
  <2>1. d \in Clients /\ Holds(d) /\ login[op[d].id] = l
    BY <1>1, <1>3, HoldersHold DEF Holders, Busy
  <2>2. op[d].id \in Ids /\ Used(op[d].id)
    BY <2>1, HeldIsUsed
  <2> QED BY <1>1, <2>1, <2>2 DEF LoginsNamed
<1> QED BY <1>1, <1>2, <1>3 DEF Phase, Live

\* A record is written: a login begins, or it keeps its data and gathers more.
LEMMA PutGathers ==
  ASSUME IInv, IInv', Promised, NEW c \in Clients, Put(c)
  PROVE  [Life!Next]_(Life!vars)
<1>1. PICK to : to \in Ids /\ to = op[c].to
  BY PutFacts
<1>2. PICK l : l \in Ids /\ l = login'[to]
  BY <1>1, PutFacts
<1>3. PICK add \in SUBSET Fields : add = op[c].add
  BY PutWrites
<1>4. PICK D : D = Read(op[c]).data
  OBVIOUS
<1>5. store'[to].here /\ store'[to].data = D \union add
  BY <1>1, <1>3, <1>4, PutWrites, PutRecord
<1>6. /\ UNCHANGED setting /\ ~Holds(c)'
      /\ \A x \in Ids \ {to} : store'[x] = store[x] /\ login'[x] = login[x]
      /\ \A x \in Ids : Used(x) => login'[x] = login[x]
      /\ \A d \in Clients \ {c} : op'[d] = op[d]
  <2>1. UNCHANGED setting /\ \A x \in Ids \ {to} : store'[x] = store[x]
    BY <1>1, PutRecord
  <2>2. ~Holds(c)' /\ \A d \in Clients \ {c} : op'[d] = op[d]
    BY PutOn
  <2>3. (\A x \in Ids \ {to} : login'[x] = login[x]) /\ \A x \in Ids : Used(x) => login'[x] = login[x]
    BY <1>1, PutFacts
  <2> QED BY <2>1, <2>2, <2>3
<1>7. to \in Records(l)'
  BY <1>1, <1>2, <1>5 DEF Records
<1>8. Carries(l, D \union add)'
  <2>1. \E x \in Records(l)' : store'[x].data = D \union add
    BY <1>5, <1>7
  <2> QED BY <2>1 DEF Carries
<1>9. ~Creates(c) => Holds(c) /\ login[op[c].id] = l
  <2>1. ~Creates(c) => op[c].rec.here /\ login'[op[c].to] = login[op[c].id] /\ op[c].plan \in Writing
    BY PutFacts
  <2> QED BY <1>1, <1>2, <2>1 DEF Holds
<1>10. Creates(c) => ~Holds(c) /\ l = to /\ ~Used(to)
  BY <1>1, <1>2, PutFacts DEF Holds
<1>11. ASSUME NEW k \in Ids \ {l} PROVE Still(k)
  <2>1. store[to].here => login[to] # k
    BY <1>1, <1>2, <1>6 DEF IInv, LoginsNamed
  <2>2. login'[to] # k /\ (Holds(c) => login[op[c].id] # k)
    BY <1>2, <1>9, <1>10
  <2> QED BY <1>1, <1>6, <2>1, <2>2, OthersStill
<1>12. CASE Creates(c)
  <2>1. Phase(l) = "none"
    BY <1>2, <1>10, <1>12, UnusedIsNone
  <2>2. Phase(l)' = "live" /\ Gathered(l)' = D \union add
    <3>1. OneData(l)'
      <4>1. Promised'
        BY <1>6 DEF Promised, setting
      <4> QED BY <1>2, <4>1, OneLoginNext
    <3>2. PICK E : E = D \union add
      OBVIOUS
    <3>3. Carries(l, E)'
      BY <1>8, <3>2
    <3>4. Phase(l)' = "live" /\ Gathered(l)' = E
      BY <3>1, <3>3 DEF OneData
    <3> QED BY <3>2, <3>4
  <2>3. D \subseteq Fields
    BY <1>4, PutRecord DEF Cells
  <2> QED BY <1>2, <1>11, <2>1, <2>2, <2>3, LifeBegins
<1>13. CASE ~Creates(c)
  <2>1. c \in Holders(l)
    BY <1>2, <1>9, <1>13, HoldersHold DEF IInv
  <2>2. op[c].rec.data = D
    <3>1. Stands(c) /\ Holds(c)
      BY <1>9, <1>13 DEF IInv, ReadStands, Promised
    <3> QED BY <1>4, <3>1 DEF Stands, Read
  <2>3. Carries(l, D)
    BY <2>1, <2>2 DEF Carries
  <2> QED BY <1>2, <1>6, <1>8, <1>11, <2>3, Gathers
<1> QED BY <1>12, <1>13

\* Nobody has logged in.
LEMMA LifeInit ==
  ASSUME Init, Promised
  PROVE  Life!Init
<1>1. ASSUME NEW l \in Ids PROVE Phase(l) = "none" /\ Gathered(l) = {}
  <2>1. Records(l) = {} /\ login[l] # l
    BY IdsAssumption DEF Init, Records, NoRecord
  <2>2. Holders(l) = {}
    BY DEF Init, Holders, Busy
  <2> QED BY <2>1, <2>2 DEF Phase, Gathered, Live
<1> QED BY <1>1 DEF Life!Init

\* Each step of a session is one of logins, or none.
LEMMA LifeNext ==
  ASSUME IInv, IInv', Next, Promised
  PROVE  [Life!Next]_(Life!vars)
<1>1. CASE \E c \in Clients : Operate(c)
  BY <1>1, OperateStill
<1>2. ASSUME NEW c \in Clients, Work(c) PROVE [Life!Next]_(Life!vars)
  <2>1. CASE Get(c)
    BY <2>1, GetStill
  <2>2. CASE Put(c)
    BY <2>2, PutGathers
  <2>3. CASE Patch(c)
    BY <2>3, PatchGathers
  <2>4. CASE Del(c)
    BY <2>4, DelEnds
  <2>5. CASE GetIndex(c) \/ SetIndex(c) \/ List(c)
    BY <2>5, IndexStill
  <2>6. CASE LookNext(c) \/ DestroyNext(c)
    BY <2>6, ListsStill
  <2> QED BY <1>2, <2>1, <2>2, <2>3, <2>4, <2>5, <2>6 DEF Work
<1>3. CASE \E id \in Ids : Lapse(id)
  BY <1>3, LapseEnds
<1> QED BY <1>1, <1>2, <1>3 DEF Next

\* With one operation of a login at a time, and a storage that merges patches, nothing
\* ends a login and lets it go on, and no patch that was answered is lost.
THEOREM SessionsImplementLife == Spec => ImplementsLife
<1>1. Init => (Promised => Life!Init)
  BY LifeInit
<1>2. IInv /\ IInv' /\ [Next]_vars => [Promised => [Life!Next]_(Life!vars)]_vars
  BY LifeNext
<1> QED BY <1>1, <1>2, Invariance, PTL DEF Spec, ImplementsLife
==============================================================================

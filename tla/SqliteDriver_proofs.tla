-------------------------- MODULE SqliteDriver_proofs --------------------------
(***************************************************************************)
(* Theorems of SqliteDriver, for every value of its constants: how deep    *)
(* the driver re-enters itself, how often a request is inserted, which     *)
(* request a row refers to, and that connections are closed.               *)
(***************************************************************************)
EXTENDS SqliteDriver, SequenceTheorems, FiniteSetTheorems, TLAPS

Labels == {"instance", "again", "insert", "id", "child", "disable"}
Frames == [table : {"event", "stats", "none"}, at : Labels]
Owners == Process \X Nat

-----------------------------------------------------------------------------
(* The invariant *)

At(p, k) == stack[p][k].at
TopAt(p, labels) == stack[p] # <<>> /\ At(p, 1) \in labels

\* One call of the driver is inside another.
Nested(p) == Len(stack[p]) >= 2 /\ At(p, 2) # "disable"

\* A call re-enters the driver only where it opens the connection, and afterwards
\* there is one: so the inner call does not open it, nor does the outer again.
Nesting(p) ==
  /\ Len(stack[p]) <= 3 /\ (Len(stack[p]) = 3 => At(p, 3) = "disable")
  /\ \A k \in DOMAIN stack[p] :
       /\ At(p, k) = "disable" => k = Len(stack[p])
       /\ At(p, k) # "disable" => stack[p][k].table \in {"event", "stats"}
       /\ k >= 2 => At(p, k) \in {"insert", "child", "disable"}
  /\ stack[p] # <<>> =>
       enabled[p] /\ hooks[p] # "none" /\ phase[p] \notin {"closing", "out"}
  /\ TopAt(p, {"instance", "again"}) => ~connected[p]
  /\ TopAt(p, {"insert", "id", "child"}) \/ Nested(p) => connected[p]
  /\ hooks[p] = "none" /\ enabled[p] => ~connected[p]
  /\ phase[p] \in {"closing", "out"} => hooks[p] # "rinit"

\* The flag is set only with the row's id in hand, so a request without the flag has
\* no row but the one just inserted; a second insertion needs a second call that
\* was already under way, which takes an error about the tables.
Counting(p) ==
  /\ IsFiniteSet(RowsOf(p))
  /\ ~is_request_created[p] /\ ~TopAt(p, {"id"}) => RowsOf(p) = {}
  /\ "schema" \notin hit[p] =>
       /\ Cardinality(RowsOf(p)) <= 1 /\ ~Nested(p)
       /\ TopAt(p, {"insert", "id"}) => ~is_request_created[p]
  /\ Cardinality(RowsOf(p)) <= 2
  /\ \A k \in DOMAIN stack[p] :
       At(p, k) \in {"instance", "insert"} => Cardinality(RowsOf(p)) <= 1
  /\ Nested(p) /\ TopAt(p, {"insert", "id"}) => ~is_request_created[p]
  /\ TopAt(p, {"instance"}) => ~is_request_created[p]

\* Nothing has happened after which an id may be foreign.
Sound(p) ==
  /\ hit[p] \intersect {"open", "path", "badpath", "skipped"} = {}
  /\ ~("busy" \in hit[p] /\ hit[p] \intersect {"schema", "early"} # {})

\* An id that is null, or that of a row of the request.
OwnId(p, i) ==
  \/ i = 0
  \/ i \in DOMAIN requests[db_file[p]] /\ requests[db_file[p]][i] = Owner(p)

\* How the id of the row gets from the connection into the rows that refer to it.
Linking(p) ==
  enabled[p] /\ Sound(p) =>
    /\ is_request_created[p] => OwnId(p, request_id[p])
    /\ TopAt(p, {"id"}) => OwnId(p, last[p])
    /\ \A k \in DOMAIN stack[p] : At(p, k) \in {"again", "child"} => is_request_created[p]
    /\ connected[p] /\ ~is_request_created[p] /\ ~TopAt(p, {"id"})
         /\ hit[p] \intersect {"schema", "early"} = {} => last[p] = 0

\* No row belongs to a request still to come.
History ==
  /\ \A f \in Files : \A i \in DOMAIN requests[f] :
       requests[f][i][2] <= number[requests[f][i][1]]
  /\ \A f \in Files : \A i \in DOMAIN children[f] :
       children[f][i].owner[2] <= number[children[f][i].owner[1]]

Local(p) == Nesting(p) /\ Counting(p) /\ Linking(p)
Stores == TypeOK /\ History /\ ChildrenOwned /\ \A p \in Process : Local(p)

-----------------------------------------------------------------------------
(* What a step does to the activations of its process *)

Stacks == [Process -> Seq(Frames)]
OthersKept(p) == \A q \in Process \ {p} : stack'[q] = stack[q]

LEMMA StackFacts ==
  ASSUME TypeOK, NEW p \in Process
  PROVE  /\ stack \in Stacks /\ stack[p] \in Seq(Frames)
         /\ Len(stack[p]) \in Nat /\ DOMAIN stack[p] = 1..Len(stack[p])
         /\ stack[p] # <<>> => Len(stack[p]) >= 1 /\ 1 \in DOMAIN stack[p]
         /\ stack[p] = <<>> => Len(stack[p]) = 0 /\ DOMAIN stack[p] = {}
         /\ \A k \in DOMAIN stack[p] : stack[p][k] \in Frames
<1>1. stack \in Stacks BY DEF TypeOK, Stacks, Frames, Labels
<1>2. stack[p] \in Seq(Frames) BY <1>1 DEF Stacks
<1> QED BY <1>1, <1>2, LenProperties, EmptySeq, ElementOfSeq

LEMMA FrameMoved ==
  ASSUME NEW f \in Frames, NEW at \in Labels
  PROVE  /\ [f EXCEPT !.at = at] = [table |-> f.table, at |-> at]
         /\ [table |-> f.table, at |-> at] \in Frames
BY DEF Frames

LEMMA GotoFacts ==
  ASSUME TypeOK, NEW p \in Process, stack[p] # <<>>, NEW at \in Labels, Goto(p, at)
  PROVE  /\ stack' \in Stacks /\ OthersKept(p) /\ stack'[p] # <<>>
         /\ Len(stack'[p]) = Len(stack[p]) /\ DOMAIN stack'[p] = DOMAIN stack[p]
         /\ stack'[p][1] = [table |-> stack[p][1].table, at |-> at]
         /\ \A k \in DOMAIN stack[p] : k # 1 => stack'[p][k] = stack[p][k]
<1> DEFINE s == stack[p] f == [table |-> s[1].table, at |-> at]
<1>1. stack \in Stacks /\ s \in Seq(Frames) /\ 1 \in 1..Len(s)
      /\ DOMAIN s = 1..Len(s)
  BY StackFacts
<1>2. s[1] \in Frames /\ f \in Frames /\ [s[1] EXCEPT !.at = at] = f
  BY <1>1, ElementOfSeq, FrameMoved
<1>3. stack' = [stack EXCEPT ![p] = [s EXCEPT ![1] = f]]
  BY <1>1, <1>2 DEF Goto
<1> HIDE DEF s, f
<1>4. /\ [s EXCEPT ![1] = f] \in Seq(Frames) /\ Len([s EXCEPT ![1] = f]) = Len(s)
      /\ \A j \in 1..Len(s) : [s EXCEPT ![1] = f][j] = IF j = 1 THEN f ELSE s[j]
  BY <1>1, <1>2, ExceptSeq
<1>5. stack'[p] = [s EXCEPT ![1] = f] /\ stack' \in Stacks /\ OthersKept(p)
  BY <1>1, <1>3, <1>4 DEF Stacks, OthersKept
<1>6. DOMAIN stack'[p] = 1..Len(s) /\ stack'[p] # <<>>
  BY <1>1, <1>4, <1>5, LenProperties, EmptySeq
<1> QED BY <1>1, <1>4, <1>5, <1>6 DEF s, f

LEMMA PopFacts ==
  ASSUME TypeOK, NEW p \in Process, stack[p] # <<>>, Pop(p)
  PROVE  /\ stack' \in Stacks /\ OthersKept(p)
         /\ Len(stack'[p]) = Len(stack[p]) - 1 /\ DOMAIN stack'[p] = 1..Len(stack[p]) - 1
         /\ stack'[p] = <<>> <=> Len(stack[p]) = 1
         /\ \A k \in 1..Len(stack[p]) - 1 : stack'[p][k] = stack[p][k + 1]
<1> DEFINE s == stack[p]
<1>1. stack \in Stacks /\ s \in Seq(Frames) /\ s # <<>> /\ stack' = [stack EXCEPT ![p] = Tail(s)]
  BY StackFacts DEF Pop
<1>2. /\ Tail(s) \in Seq(Frames) /\ Len(Tail(s)) = Len(s) - 1
      /\ \A i \in 1..Len(Tail(s)) : Tail(s)[i] = s[i + 1]
  BY <1>1, HeadTailProperties
<1> HIDE DEF s
<1>3. stack'[p] = Tail(s) /\ stack' \in Stacks /\ OthersKept(p)
  BY <1>1, <1>2 DEF Stacks, OthersKept
<1>4. DOMAIN stack'[p] = 1..Len(s) - 1
  BY <1>2, <1>3, LenProperties
<1>5. stack'[p] = <<>> <=> Len(s) = 1
  <2>1. Len(s) \in Nat \ {0} BY <1>1, EmptySeq
  <2>2. stack'[p] = <<>> <=> Len(stack'[p]) = 0 BY <1>2, <1>3, EmptySeq
  <2> QED BY <1>2, <1>3, <2>1, <2>2
<1> QED BY <1>2, <1>3, <1>4, <1>5 DEF s

\* The label at which a call begins.
Begin(p) == IF connected'[p] THEN IF is_request_created[p] THEN "child" ELSE "insert"
                             ELSE IF is_request_created[p] THEN "again" ELSE "instance"

LEMMA CheckIsBegin == \A p : Check(p) = Begin(p) /\ Check(p) \in Labels
BY DEF Check, Get, After, Begin, Labels

\* A call begins with nothing below it.
LEMMA StartFacts ==
  ASSUME TypeOK, NEW p \in Process, NEW table \in {"event", "stats"},
         stack' = [stack EXCEPT ![p] = <<Frame(table, Check(p))>>]
  PROVE  /\ stack' \in Stacks /\ OthersKept(p) /\ stack'[p] # <<>>
         /\ Len(stack'[p]) = 1 /\ DOMAIN stack'[p] = {1}
         /\ stack'[p][1] = [table |-> table, at |-> Begin(p)]
<1> DEFINE f == Frame(table, Check(p))
<1>1. f \in Frames /\ f = [table |-> table, at |-> Begin(p)]
  BY CheckIsBegin DEF Frame, Frames
<1>2. stack \in Stacks BY StackFacts
<1> HIDE DEF f
<1>3. <<f>> \in Seq(Frames) /\ Len(<<f>>) = 1 /\ DOMAIN <<f>> = {1} /\ <<f>>[1] = f
  BY <1>1
<1>4. stack'[p] = <<f>> /\ stack' \in Stacks /\ OthersKept(p)
  BY <1>2, <1>3 DEF Stacks, OthersKept, f
<1> QED BY <1>1, <1>3, <1>4

\* The error about the tables: the outer call will go on at `next'.
LEMMA ComplainFacts ==
  ASSUME TypeOK, NEW p \in Process, stack[p] # <<>>, NEW next \in Labels,
         Complain(p, next), connected'[p]
  PROVE  /\ stack' \in Stacks /\ OthersKept(p) /\ stack'[p] # <<>>
         /\ \/ /\ Len(stack'[p]) = Len(stack[p]) /\ DOMAIN stack'[p] = DOMAIN stack[p]
               /\ stack'[p][1] = [table |-> stack[p][1].table, at |-> next]
               /\ \A k \in DOMAIN stack[p] : k # 1 => stack'[p][k] = stack[p][k]
            \/ /\ Len(stack'[p]) = Len(stack[p]) + 1
               /\ DOMAIN stack'[p] = 1..Len(stack[p]) + 1
               /\ stack'[p][1] = [table |-> "event", at |-> Begin(p)]
               /\ stack'[p][2] = [table |-> stack[p][1].table, at |-> next]
               /\ \A k \in DOMAIN stack[p] : k # 1 => stack'[p][k + 1] = stack[p][k]
<1> DEFINE s == stack[p] f == [table |-> s[1].table, at |-> next]
           g == Frame("event", Check(p)) back == <<f>> \o Tail(s)
<1>1. stack \in Stacks /\ s \in Seq(Frames) /\ s # <<>> /\ Len(s) \in Nat /\ Len(s) >= 1
      /\ 1 \in 1..Len(s) /\ DOMAIN s = 1..Len(s)
  BY StackFacts
<1>2. s[1] \in Frames /\ f \in Frames /\ [s[1] EXCEPT !.at = next] = f
  BY <1>1, ElementOfSeq, FrameMoved
<1>3. g \in Frames /\ g = [table |-> "event", at |-> Begin(p)]
  BY CheckIsBegin DEF Frame, Frames
<1>4. stack' = [stack EXCEPT ![p] = IF WantsCoreWarnings THEN <<g>> \o back ELSE back]
  BY <1>2 DEF Complain, Top
<1> HIDE DEF s, f, g
<1>5. /\ Tail(s) \in Seq(Frames) /\ Len(Tail(s)) = Len(s) - 1
      /\ \A i \in 1..Len(s) - 1 : Tail(s)[i] = s[i + 1]
  BY <1>1, HeadTailProperties
<1>6. <<f>> \in Seq(Frames) /\ Len(<<f>>) = 1 /\ <<f>>[1] = f
      /\ <<g>> \in Seq(Frames) /\ Len(<<g>>) = 1 /\ <<g>>[1] = g
  BY <1>2, <1>3
<1>7. /\ back \in Seq(Frames) /\ Len(back) = Len(s)
      /\ \A i \in 1..Len(s) : back[i] = IF i <= 1 THEN f ELSE Tail(s)[i - 1]
  <2>1. /\ back \in Seq(Frames) /\ Len(back) = 1 + (Len(s) - 1)
        /\ \A i \in 1..1 + (Len(s) - 1) : back[i] = IF i <= 1 THEN <<f>>[i] ELSE Tail(s)[i - 1]
    BY <1>5, <1>6, ConcatProperties
  <2>2. 1 + (Len(s) - 1) = Len(s) BY <1>1
  <2> HIDE DEF back
  <2>3. \A i \in 1..Len(s) : i <= 1 => i = 1 BY <1>1
  <2> QED BY <1>6, <2>1, <2>2, <2>3
<1> HIDE DEF back
<1>8. back[1] = f /\ \A k \in 1..Len(s) : k # 1 => back[k] = s[k]
  <2>1. \A k \in 1..Len(s) : k # 1 => /\ ~(k <= 1) /\ k - 1 \in 1..Len(s) - 1
                                       /\ (k - 1) + 1 = k
    BY <1>1
  <2> QED BY <1>1, <1>5, <1>7, <2>1
<1>9. DOMAIN back = 1..Len(s) /\ back # <<>> BY <1>1, <1>7, LenProperties, EmptySeq
<1>10. /\ <<g>> \o back \in Seq(Frames) /\ Len(<<g>> \o back) = Len(s) + 1
       /\ \A i \in 1..Len(s) + 1 : (<<g>> \o back)[i] = IF i <= 1 THEN g ELSE back[i - 1]
  <2>1. /\ <<g>> \o back \in Seq(Frames) /\ Len(<<g>> \o back) = 1 + Len(s)
        /\ \A i \in 1..1 + Len(s) : (<<g>> \o back)[i] = IF i <= 1 THEN <<g>>[i] ELSE back[i - 1]
    BY <1>6, <1>7, ConcatProperties
  <2>2. 1 + Len(s) = Len(s) + 1 BY <1>1
  <2>3. \A i \in 1..Len(s) + 1 : i <= 1 => i = 1 BY <1>1
  <2> QED BY <1>6, <2>1, <2>2, <2>3
<1>11. CASE ~WantsCoreWarnings
  <2>1. stack'[p] = back /\ stack' \in Stacks /\ OthersKept(p)
    BY <1>1, <1>4, <1>7, <1>11 DEF Stacks, OthersKept
  <2> QED BY <1>1, <1>7, <1>8, <1>9, <2>1 DEF s, f
<1>12. CASE WantsCoreWarnings
  <2> DEFINE t == <<g>> \o back
  <2>1. stack'[p] = t /\ stack' \in Stacks /\ OthersKept(p)
    BY <1>1, <1>4, <1>10, <1>12 DEF Stacks, OthersKept
  <2>2. DOMAIN t = 1..Len(s) + 1 /\ t # <<>>
    BY <1>1, <1>10, LenProperties, EmptySeq
  <2>3. t[1] = g /\ t[2] = f BY <1>1, <1>8, <1>10
  <2>4. \A k \in 1..Len(s) : k # 1 => t[k + 1] = s[k]
    <3> SUFFICES ASSUME NEW k \in 1..Len(s), k # 1 PROVE t[k + 1] = s[k]
      OBVIOUS
    <3>1. k + 1 \in 1..Len(s) + 1 /\ ~(k + 1 <= 1) /\ (k + 1) - 1 = k BY <1>1
    <3> QED BY <1>8, <1>10, <3>1
  <2> HIDE DEF t
  <2> QED BY <1>1, <1>3, <1>10, <2>1, <2>2, <2>3, <2>4 DEF s, f, t
<1> QED BY <1>11, <1>12

-----------------------------------------------------------------------------
(* What a step leaves alone *)

\* The step is one of process p.
OthersSame(p) ==
  \A q \in Process \ {p} :
    /\ enabled'[q] = enabled[q] /\ db_file'[q] = db_file[q]
    /\ connected'[q] = connected[q] /\ is_request_created'[q] = is_request_created[q]
    /\ request_id'[q] = request_id[q] /\ last'[q] = last[q]
    /\ stack'[q] = stack[q] /\ phase'[q] = phase[q] /\ number'[q] = number[q]
    /\ hit'[q] = hit[q] /\ hooks'[q] = hooks[q]

RequestAdded(p) ==
  requests' = [requests EXCEPT ![db_file[p]] = Append(@, Owner(p))]

LEMMA TableFacts ==
  ASSUME TypeOK, NEW f \in Files
  PROVE  /\ requests[f] \in Seq(Owners) /\ Len(requests[f]) \in Nat
         /\ DOMAIN requests[f] = 1..Len(requests[f])
         /\ \A i \in DOMAIN requests[f] : requests[f][i] \in Owners
         /\ children[f] \in Seq(Rows) /\ Len(children[f]) \in Nat
         /\ DOMAIN children[f] = 1..Len(children[f])
         /\ \A i \in DOMAIN children[f] : children[f][i] \in Rows
<1>1. requests[f] \in Seq(Owners) /\ children[f] \in Seq(Rows) BY DEF TypeOK, Owners
<1> QED BY ONLY <1>1, LenProperties, ElementOfSeq

LEMMA RowAdded ==
  ASSUME TypeOK, NEW p \in Process, RequestAdded(p)
  PROVE  LET f == db_file[p] n == Len(requests[f]) IN
         /\ f \in Files /\ n \in Nat /\ requests' \in [Files -> Seq(Owners)]
         /\ Len(requests'[f]) = n + 1 /\ DOMAIN requests'[f] = 1..n + 1
         /\ requests'[f][n + 1] = Owner(p)
         /\ \A i \in 1..n : requests'[f][i] = requests[f][i]
         /\ \A g \in Files \ {f} : requests'[g] = requests[g]
<1> DEFINE f == db_file[p] n == Len(requests[f])
<1>1. f \in Files /\ Owner(p) \in Owners BY DEF TypeOK, Owner, Owners
<1>2. requests \in [Files -> Seq(Owners)] /\ requests[f] \in Seq(Owners) /\ n \in Nat
  BY <1>1, TableFacts DEF TypeOK, Owners
<1>3. /\ Append(requests[f], Owner(p)) \in Seq(Owners)
      /\ Len(Append(requests[f], Owner(p))) = n + 1
      /\ \A i \in 1..n : Append(requests[f], Owner(p))[i] = requests[f][i]
      /\ Append(requests[f], Owner(p))[n + 1] = Owner(p)
  BY <1>1, <1>2, AppendProperties
<1>4. requests' = [requests EXCEPT ![f] = Append(requests[f], Owner(p))]
  BY DEF RequestAdded
<1> HIDE DEF f, n
<1>5. requests'[f] = Append(requests[f], Owner(p)) /\ requests' \in [Files -> Seq(Owners)]
      /\ \A g \in Files \ {f} : requests'[g] = requests[g]
  BY <1>1, <1>2, <1>3, <1>4
<1>6. DOMAIN requests'[f] = 1..n + 1 BY <1>3, <1>5, LenProperties
<1> QED BY <1>1, <1>2, <1>3, <1>5, <1>6 DEF f, n

\* The rows of a request.
LEMMA RowsIn ==
  ASSUME NEW p
  PROVE  \A x : x \in RowsOf(p) <=> \E f \in Files : \E i \in DOMAIN requests[f] :
                                       x = <<f, i>> /\ requests[f][i] = Owner(p)
BY DEF RowsOf

LEMMA RowsKept ==
  ASSUME NEW q \in Process, number'[q] = number[q], requests' = requests
  PROVE  RowsOf(q)' = RowsOf(q)
BY DEF RowsOf, Owner

\* A row inserted by p, for p and for another process.
LEMMA RowsAdded ==
  ASSUME TypeOK, NEW p \in Process, RequestAdded(p), NEW q \in Process,
         number'[q] = number[q]
  PROVE  RowsOf(q)' = IF q = p THEN RowsOf(p) \union {<<db_file[p], Len(requests[db_file[p]]) + 1>>}
                               ELSE RowsOf(q)
<1> DEFINE f == db_file[p] n == Len(requests[f])
<1>1. /\ f \in Files /\ n \in Nat
      /\ DOMAIN requests'[f] = 1..n + 1 /\ requests'[f][n + 1] = Owner(p)
      /\ \A i \in 1..n : requests'[f][i] = requests[f][i]
      /\ \A g \in Files \ {f} : requests'[g] = requests[g]
  BY RowAdded
<1>2. DOMAIN requests[f] = 1..n BY <1>1, TableFacts
<1>3. Owner(q)' = Owner(q) /\ (Owner(q) = Owner(p) <=> q = p) BY DEF Owner
<1> HIDE DEF f, n
<1>4. \A g \in Files : \A i :
        i \in DOMAIN requests'[g] /\ requests'[g][i] = Owner(q)
          <=> \/ i \in DOMAIN requests[g] /\ requests[g][i] = Owner(q)
              \/ q = p /\ g = f /\ i = n + 1
  <2> SUFFICES ASSUME NEW g \in Files, NEW i
               PROVE  i \in DOMAIN requests'[g] /\ requests'[g][i] = Owner(q)
                        <=> \/ i \in DOMAIN requests[g] /\ requests[g][i] = Owner(q)
                            \/ q = p /\ g = f /\ i = n + 1
    OBVIOUS
  <2>1. CASE g # f BY <1>1, <2>1
  <2>2. CASE g = f
    <3>1. i \in 1..n + 1 <=> i \in 1..n \/ i = n + 1 BY <1>1
    <3>2. n + 1 \notin 1..n BY <1>1
    <3> QED BY <1>1, <1>2, <1>3, <2>2, <3>1, <3>2
  <2> QED BY <2>1, <2>2
<1>5. \A x : x \in RowsOf(q)' <=> \E g \in Files : \E i \in DOMAIN requests'[g] :
                                     x = <<g, i>> /\ requests'[g][i] = Owner(q)
  BY <1>3 DEF RowsOf
<1>6. \A x : x \in RowsOf(q)' <=> x \in RowsOf(q) \/ (q = p /\ x = <<f, n + 1>>)
  <2>1. \A x : x \in RowsOf(q) <=> \E g \in Files : \E i \in DOMAIN requests[g] :
                                      x = <<g, i>> /\ requests[g][i] = Owner(q)
    BY RowsIn
  <2>2. f \in Files BY <1>1
  <2> SUFFICES ASSUME NEW x
               PROVE  x \in RowsOf(q)' <=> x \in RowsOf(q) \/ (q = p /\ x = <<f, n + 1>>)
    OBVIOUS
  <2>3. ASSUME x \in RowsOf(q)' PROVE x \in RowsOf(q) \/ (q = p /\ x = <<f, n + 1>>)
    <3>1. PICK g \in Files : \E i \in DOMAIN requests'[g] :
                                x = <<g, i>> /\ requests'[g][i] = Owner(q)
      BY <1>5, <2>3
    <3>2. PICK i \in DOMAIN requests'[g] : x = <<g, i>> /\ requests'[g][i] = Owner(q)
      BY <3>1
    <3> QED BY <1>4, <2>1, <3>2
  <2>4. ASSUME x \in RowsOf(q) PROVE x \in RowsOf(q)'
    <3>1. PICK g \in Files : \E i \in DOMAIN requests[g] :
                                x = <<g, i>> /\ requests[g][i] = Owner(q)
      BY <2>1, <2>4
    <3>2. PICK i \in DOMAIN requests[g] : x = <<g, i>> /\ requests[g][i] = Owner(q)
      BY <3>1
    <3> QED BY <1>4, <1>5, <3>2
  <2>5. ASSUME q = p, x = <<f, n + 1>> PROVE x \in RowsOf(q)'
    BY <1>4, <1>5, <2>2, <2>5
  <2> QED BY <2>3, <2>4, <2>5
<1> QED BY <1>6 DEF f, n

LEMMA OthersLocal ==
  ASSUME Stores, NEW p \in Process, OthersSame(p), NEW q \in Process \ {p},
         UNCHANGED requests \/ RequestAdded(p)
  PROVE  Local(q)'
<1>1. RowsOf(q)' = RowsOf(q)
  BY RowsKept, RowsAdded DEF OthersSame, Stores
<1>2. Local(q) BY DEF Stores
<1>3. Nesting(q)' BY <1>2 DEF Local, Nesting, Nested, TopAt, At, OthersSame
<1>4. Counting(q)' BY <1>1, <1>2 DEF Local, Counting, Nested, TopAt, At, OthersSame
<1>6. \A i : OwnId(q, i) => OwnId(q, i)'
  <2> SUFFICES ASSUME NEW i, OwnId(q, i), i # 0 PROVE OwnId(q, i)'
    BY DEF OwnId
  <2> DEFINE f == db_file[q]
  <2>1. db_file'[q] = f /\ f \in Files /\ Owner(q)' = Owner(q)
    BY DEF OthersSame, Owner, Stores, TypeOK
  <2>2. i \in DOMAIN requests[f] /\ requests[f][i] = Owner(q) BY DEF OwnId
  <2>3. CASE UNCHANGED requests BY <2>1, <2>2, <2>3 DEF OwnId
  <2>4. CASE RequestAdded(p)
    <3> DEFINE g == db_file[p] n == Len(requests[g])
    <3>1. /\ g \in Files /\ n \in Nat /\ DOMAIN requests'[g] = 1..n + 1
          /\ \A j \in 1..n : requests'[g][j] = requests[g][j]
          /\ \A h \in Files \ {g} : requests'[h] = requests[h]
      BY <2>4, RowAdded DEF Stores
    <3>2. DOMAIN requests[g] = 1..n BY <3>1, TableFacts DEF Stores
    <3>3. f \in Files /\ i \in DOMAIN requests[f] /\ requests[f][i] = Owner(q)
      BY <2>1, <2>2
    <3> HIDE DEF f, g, n
    <3>4. i \in DOMAIN requests'[f] /\ requests'[f][i] = Owner(q)
      <4>1. CASE f = g
        <5>1. i \in 1..n /\ i \in 1..n + 1 BY ONLY <3>1, <3>2, <3>3, <4>1
        <5> QED BY ONLY <3>1, <3>3, <4>1, <5>1
      <4>2. CASE f # g BY ONLY <3>1, <3>3, <4>2
      <4> QED BY <4>1, <4>2
    <3> QED BY <2>1, <3>4 DEF OwnId, f
  <2> QED BY <2>3, <2>4
<1>7. Linking(q)'
  BY <1>2, <1>6 DEF Local, Linking, Sound, TopAt, At, OthersSame
<1> QED BY <1>3, <1>4, <1>7 DEF Local

\* No row belongs to a request still to come, whatever is added for this one.
LEMMA HistoryKept ==
  ASSUME Stores, UNCHANGED tables, \A q \in Process : number'[q] \in Nat /\ number'[q] >= number[q]
  PROVE  History'
<1> USE DEF tables, Owners, Rows
<1>1. ASSUME NEW f \in Files, NEW i \in DOMAIN requests'[f]
      PROVE  requests'[f][i][2] <= number'[requests'[f][i][1]]
  <2> DEFINE o == requests[f][i]
  <2>1. o \in Owners /\ o[2] <= number[o[1]]
    BY <1>1, TableFacts DEF Stores, History
  <2>2. o[1] \in Process /\ o[2] \in Nat /\ number[o[1]] \in Nat
        /\ number'[o[1]] \in Nat /\ number[o[1]] <= number'[o[1]]
    BY <2>1 DEF Stores, TypeOK
  <2>3. o[2] <= number'[o[1]]
    <3> HIDE DEF o
    <3> QED BY <2>1, <2>2
  <2> QED BY <2>3
<1>2. ASSUME NEW f \in Files, NEW i \in DOMAIN children'[f]
      PROVE  children'[f][i].owner[2] <= number'[children'[f][i].owner[1]]
  <2> DEFINE o == children[f][i].owner
  <2>1. o \in Owners /\ o[2] <= number[o[1]]
    BY <1>2, TableFacts DEF Stores, History
  <2>2. o[1] \in Process /\ o[2] \in Nat /\ number[o[1]] \in Nat
        /\ number'[o[1]] \in Nat /\ number[o[1]] <= number'[o[1]]
    BY <2>1 DEF Stores, TypeOK
  <2>3. o[2] <= number'[o[1]]
    <3> HIDE DEF o
    <3> QED BY <2>1, <2>2
  <2> QED BY <2>3
<1> QED BY <1>1, <1>2 DEF History

\* ChildrenOwned, in the terms of the invariant.
Refers(f, c) ==
  \/ c.request_id = 0
  \/ c.request_id \in DOMAIN requests[f] /\ requests[f][c.request_id] = c.owner

LEMMA OwnedMeans ==
  ChildrenOwned <=> \A p \in Process, f \in Files : \A i \in DOMAIN children[f] :
                      children[f][i].owner = Owner(p) /\ Sound(p) => Refers(f, children[f][i])
BY DEF ChildrenOwned, Sound, Refers

LEMMA OwnedKept ==
  ASSUME Stores, NEW p \in Process, OthersSame(p), UNCHANGED children,
         UNCHANGED requests \/ RequestAdded(p),
         number'[p] = number[p], hit[p] \subseteq hit'[p]
  PROVE  ChildrenOwned'
<1> SUFFICES ASSUME NEW q \in Process, NEW f \in Files, NEW i \in DOMAIN children[f],
                    children[f][i].owner = Owner(q)', Sound(q)'
             PROVE  Refers(f, children[f][i])'
  BY DEF ChildrenOwned, Sound, Refers
<1>1. Owner(q)' = Owner(q) /\ hit[q] \subseteq hit'[q]
  BY DEF OthersSame, Owner
<1>2. Sound(q) BY <1>1 DEF Sound
<1>3. Refers(f, children[f][i]) BY <1>1, <1>2, OwnedMeans DEF Stores
<1>4. CASE UNCHANGED requests BY <1>3, <1>4 DEF Refers
<1>5. CASE RequestAdded(p)
  <2> DEFINE g == db_file[p] n == Len(requests[g])
  <2>1. /\ g \in Files /\ n \in Nat /\ DOMAIN requests'[g] = 1..n + 1
        /\ \A j \in 1..n : requests'[g][j] = requests[g][j]
        /\ \A h \in Files \ {g} : requests'[h] = requests[h]
    BY <1>5, RowAdded DEF Stores
  <2>2. DOMAIN requests[g] = 1..n BY <2>1, TableFacts DEF Stores
  <2> HIDE DEF g, n
  <2> QED BY <1>3, <2>1, <2>2 DEF Refers
<1> QED BY <1>4, <1>5

-----------------------------------------------------------------------------
(* The calls of the core *)

Preserved(p) == TypeOK' /\ OthersSame(p) /\ Local(p)'

LEMMA StoresInit == Init => Stores
<1> SUFFICES ASSUME Init PROVE Stores
  OBVIOUS
<1>1. /\ \A f \in Files : requests[f] = <<>> /\ children[f] = <<>>
      /\ DOMAIN <<>> = {} /\ <<>> \in Seq(Owners) /\ <<>> \in Seq(Rows)
      /\ <<>> \in Seq(Frames) /\ Len(<<>>) = 0
  BY DEF Init
<1>2. TypeOK
  <2>1. Home \in Files BY SqliteAssumption
  <2>2. Stacks = [Process -> Seq([table : {"event", "stats", "none"},
                    at : {"instance", "again", "insert", "id", "child", "disable"}])]
    BY DEF Stacks, Frames, Labels
  <2>3. stack \in Stacks BY <1>1 DEF Init, Stacks
  <2>4. requests \in [Files -> Seq(Process \X Nat)] /\ children \in [Files -> Seq(Rows)]
    BY <1>1 DEF Init, Owners
  <2>5. hit \in [Process -> SUBSET Faults] BY DEF Init
  <2> QED BY <2>1, <2>2, <2>3, <2>4, <2>5 DEF Init, TypeOK
<1>3. History /\ ChildrenOwned BY <1>1 DEF History, ChildrenOwned
<1>4. ASSUME NEW p \in Process PROVE Local(p)
  <2>1. RowsOf(p) = {} BY <1>1 DEF RowsOf
  <2>2. stack[p] = <<>> /\ Len(stack[p]) = 0 /\ DOMAIN stack[p] = {}
        /\ hooks[p] = "minit" /\ phase[p] = "startup" /\ ~connected[p] /\ ~is_request_created[p] /\ hit[p] = {}
    BY <1>1 DEF Init
  <2>3. Nesting(p) /\ Linking(p)
    BY <2>2 DEF Nesting, Linking, TopAt, Nested
  <2>4. Counting(p)
    BY <2>1, <2>2, FS_EmptySet DEF Counting, TopAt, Nested
  <2> QED BY <2>3, <2>4 DEF Local
<1> QED BY <1>2, <1>3, <1>4 DEF Stores

\* A step that does not touch a stack.
LEMMA StackKept ==
  ASSUME TypeOK, UNCHANGED stack, NEW p \in Process
  PROVE  /\ stack' \in Stacks /\ OthersKept(p) /\ Nested(p)' = Nested(p)
         /\ \A labels : TopAt(p, labels)' = TopAt(p, labels)
BY StackFacts DEF OthersKept, Nested, TopAt, At

\* The frames' type, as TypeOK spells it.
LEMMA StackType == stack \in Stacks <=> stack \in [Process -> Seq(
  [table : {"event", "stats", "none"},
   at : {"instance", "again", "insert", "id", "child", "disable"}])]
BY DEF Stacks, Frames, Labels

\* A request whose process has no activation, and no row, is as one would have it.
LEMMA FreshRows ==
  ASSUME Stores, NEW p \in Process, number'[p] = number[p] + 1, UNCHANGED requests
  PROVE  RowsOf(p)' = {}
<1> SUFFICES ASSUME NEW f \in Files, NEW i \in DOMAIN requests[f]
             PROVE  requests[f][i] # Owner(p)'
  BY DEF RowsOf
<1>1. requests[f][i] \in Owners /\ requests[f][i][2] <= number[requests[f][i][1]]
  BY TableFacts DEF Stores, History
<1>2. number[p] \in Nat /\ Owner(p)' = <<p, number[p] + 1>>
  BY DEF Stores, TypeOK, Owner
<1> QED BY <1>1, <1>2 DEF Owners

\* How a request begins.
LEMMA RinitFacts ==
  ASSUME Stores, NEW p \in Process, rinit(p) \/ rinit_Skipped(p)
  PROVE  /\ stack[p] = <<>> /\ phase' = [phase EXCEPT ![p] = "script"]
         /\ number' = [number EXCEPT ![p] = number[p] + 1]
         /\ events' = [events EXCEPT ![p] = 0]
         /\ UNCHANGED <<enabled, db_file, connected, request_id, last, stack, tables>>
         /\ hit' \in [Process -> SUBSET Faults]
         /\ hooks' \in [Process -> {"minit", "rinit", "none"}]
         /\ is_request_created' \in [Process -> BOOLEAN]
         /\ "schema" \notin hit'[p] /\ "busy" \notin hit'[p]
         /\ connected[p] => "early" \in hit'[p]
         /\ is_request_created'[p] /\ enabled[p] => "skipped" \in hit'[p]
         /\ hooks'[p] = "none" => hooks[p] = "none"
         /\ \A q \in Process \ {p} :
              /\ hit'[q] = hit[q] /\ hooks'[q] = hooks[q]
              /\ is_request_created'[q] = is_request_created[q]
<1>1. /\ hit \in [Process -> SUBSET Faults] /\ is_request_created \in [Process -> BOOLEAN]
      /\ hooks \in [Process -> {"minit", "rinit", "none"}] /\ {"early", "skipped"} \subseteq Faults
  BY DEF Stores, TypeOK, Faults
<1>2. CASE rinit(p)
  <2>1. hit' = [hit EXCEPT ![p] = IF connected[p] THEN {"early"} ELSE {}]
    BY <1>2 DEF rinit, NextRequest
  <2>2. /\ hooks' = [hooks EXCEPT ![p] = "rinit"]
        /\ is_request_created' = IF enabled[p] THEN [is_request_created EXCEPT ![p] = FALSE]
                                               ELSE is_request_created
    BY <1>2 DEF rinit
  <2>3. /\ stack[p] = <<>> /\ phase' = [phase EXCEPT ![p] = "script"]
        /\ number' = [number EXCEPT ![p] = number[p] + 1]
        /\ events' = [events EXCEPT ![p] = 0]
        /\ UNCHANGED <<enabled, db_file, connected, request_id, last, stack, tables>>
    BY <1>2 DEF rinit, NextRequest
  <2> QED BY ONLY <1>1, <2>1, <2>2, <2>3, p \in Process
<1>3. CASE rinit_Skipped(p)
  <2>1. hit' = [hit EXCEPT ![p] = (IF connected[p] THEN {"early"} ELSE {}) \union
                                    (IF is_request_created[p] THEN {"skipped"} ELSE {})]
    BY <1>3 DEF rinit_Skipped, NextRequest
  <2>2. /\ stack[p] = <<>> /\ phase' = [phase EXCEPT ![p] = "script"]
        /\ number' = [number EXCEPT ![p] = number[p] + 1]
        /\ events' = [events EXCEPT ![p] = 0]
        /\ UNCHANGED <<enabled, db_file, connected, request_id, last, stack, tables>>
        /\ UNCHANGED <<hooks, is_request_created>>
    BY <1>3 DEF rinit_Skipped, NextRequest
  <2> QED BY ONLY <1>1, <2>1, <2>2, p \in Process
<1> QED BY <1>2, <1>3

LEMMA RinitStep ==
  ASSUME Stores, NEW p \in Process, rinit(p) \/ rinit_Skipped(p) PROVE Preserved(p)
<1> USE DEF Stores, tables
<1>1. /\ stack[p] = <<>> /\ phase' = [phase EXCEPT ![p] = "script"]
      /\ number' = [number EXCEPT ![p] = number[p] + 1]
      /\ events' = [events EXCEPT ![p] = 0]
      /\ UNCHANGED <<enabled, db_file, connected, request_id, last, stack, tables>>
  BY RinitFacts
<1>2. /\ hit' \in [Process -> SUBSET Faults]
      /\ hooks' \in [Process -> {"minit", "rinit", "none"}]
      /\ is_request_created' \in [Process -> BOOLEAN]
  BY RinitFacts
<1>3. /\ "schema" \notin hit'[p] /\ "busy" \notin hit'[p]
      /\ connected[p] => "early" \in hit'[p]
      /\ is_request_created'[p] /\ enabled[p] => "skipped" \in hit'[p]
      /\ hooks'[p] = "none" => hooks[p] = "none"
  BY RinitFacts
<1>4. TypeOK'
  <2>1. /\ number \in [Process -> Nat] /\ events \in [Process -> Nat]
        /\ phase \in [Process -> {"startup", "script", "stats", "closing", "out"}]
    BY DEF TypeOK
  <2>2. /\ number' \in [Process -> Nat] /\ events' \in [Process -> Nat]
        /\ phase' \in [Process -> {"startup", "script", "stats", "closing", "out"}]
    BY ONLY <1>1, <2>1, p \in Process
  <2> QED BY <1>1, <1>2, <2>2 DEF TypeOK
<1>5. OthersSame(p)
  <2>1. \A q \in Process \ {p} :
          /\ hit'[q] = hit[q] /\ hooks'[q] = hooks[q]
          /\ is_request_created'[q] = is_request_created[q]
    BY RinitFacts
  <2> QED BY <1>1, <2>1 DEF TypeOK, OthersSame
<1>6. RowsOf(p)' = {} BY <1>1, FreshRows DEF TypeOK
<1>7. phase'[p] = "script" /\ stack'[p] = <<>> /\ DOMAIN <<>> = {} /\ Len(<<>>) = 0
  BY <1>1 DEF TypeOK
<1>8. Nesting(p)'
  <2>1. hooks[p] = "none" /\ enabled[p] => ~connected[p] BY DEF Local, Nesting
  <2> QED BY <1>1, <1>3, <1>7, <2>1 DEF Nesting, TopAt, Nested
<1>9. Counting(p)' BY <1>3, <1>6, <1>7, FS_EmptySet DEF Counting, TopAt, Nested
<1>10. Linking(p)' BY <1>1, <1>3, <1>7 DEF Linking, Sound, TopAt
<1> QED BY <1>4, <1>5, <1>8, <1>9, <1>10 DEF Preserved, Local

\* A call of process_event or process_stats begins.
LEMMA CallBegins ==
  ASSUME Stores, NEW p \in Process, NEW table \in {"event", "stats"}, stack[p] = <<>>,
         enabled[p], stack' = [stack EXCEPT ![p] = <<Frame(table, Check(p))>>],
         UNCHANGED <<enabled, db_file, locals, hooks, number, tables>>, hooks[p] # "none",
         phase'[p] \in {"startup", "script", "stats"},
         hit'[p] = hit[p] \/ hit'[p] = hit[p] \union {"early"}
  PROVE  Local(p)'
<1> USE DEF Stores, locals, tables
<1>1. /\ stack'[p] # <<>> /\ Len(stack'[p]) = 1 /\ DOMAIN stack'[p] = {1}
      /\ stack'[p][1] = [table |-> table, at |-> Begin(p)]
  BY StartFacts
<1>2. connected'[p] = connected[p] /\ is_request_created'[p] = is_request_created[p]
      /\ RowsOf(p)' = RowsOf(p) /\ DOMAIN <<>> = {} /\ Len(<<>>) = 0
  BY RowsKept
<1>3. Local(p) /\ ~TopAt(p, {"id"}) BY DEF TopAt
<1>4. Nesting(p)' BY <1>1, <1>2 DEF Nesting, TopAt, Nested, At, Begin
<1>5. Counting(p)'
  <2>1. Counting(p) /\ ~TopAt(p, {"id"}) BY <1>3 DEF Local
  <2>2. ~is_request_created[p] => RowsOf(p) = {} /\ Cardinality(RowsOf(p)) = 0
    BY <2>1, FS_EmptySet DEF Counting
  <2>3. ~Nested(p)' BY <1>1 DEF Nested
  <2>4. /\ \A k \in DOMAIN stack'[p] : k = 1
        /\ At(p, 1)' \in {"instance", "insert"} => ~is_request_created[p]
        /\ ~TopAt(p, {"id"})' /\ (TopAt(p, {"instance"})' => ~is_request_created[p])
        /\ (TopAt(p, {"insert", "id"})' => ~is_request_created[p])
    BY <1>1, <1>2 DEF TopAt, At, Begin
  <2>5. "schema" \notin hit'[p] => "schema" \notin hit[p] OBVIOUS
  <2>6. \A k \in DOMAIN stack'[p] :
          At(p, k)' \in {"instance", "insert"} => Cardinality(RowsOf(p)) <= 1
    BY <2>2, <2>4
  <2> QED BY <1>2, <2>1, <2>3, <2>4, <2>5, <2>6 DEF Counting
<1>6. Linking(p)'
  <2>1. Sound(p)' => Sound(p) BY DEF Sound
  <2>2. \A i : OwnId(p, i) => OwnId(p, i)' BY DEF OwnId, Owner
  <2>3. ~TopAt(p, {"id"})' BY <1>1 DEF TopAt, At, Begin
  <2>4. At(p, 1)' \in {"again", "child"} => is_request_created[p]
    BY <1>1, <1>2 DEF At, Begin
  <2> QED BY <1>1, <1>2, <1>3, <2>1, <2>2, <2>3, <2>4 DEF Local, Linking
<1> QED BY <1>4, <1>5, <1>6 DEF Local

LEMMA ProcessEventStep ==
  ASSUME Stores, NEW p \in Process, process_event(p) PROVE Preserved(p)
<1> USE DEF Stores, locals, tables
<1>1. /\ stack[p] = <<>> /\ enabled[p] /\ phase[p] \in {"startup", "script"}
      /\ hooks[p] # "none"
      /\ stack' = [stack EXCEPT ![p] = <<Frame("event", Check(p))>>]
      /\ events' = [events EXCEPT ![p] = @ + 1]
      /\ UNCHANGED <<enabled, db_file, locals, hooks, phase, number, tables>>
  BY DEF process_event
<1>2. \/ UNCHANGED hit
      \/ hit' = [hit EXCEPT ![p] = @ \union {"early"}]
  BY DEF process_event, Fault
<1>3. hit' \in [Process -> SUBSET Faults] /\ (\A q \in Process \ {p} : hit'[q] = hit[q])
      /\ (hit'[p] = hit[p] \/ hit'[p] = hit[p] \union {"early"})
  <2>1. "early" \in Faults /\ hit \in [Process -> SUBSET Faults] BY DEF Faults, TypeOK
  <2>2. CASE UNCHANGED hit BY ONLY <2>1, <2>2
  <2>3. CASE hit' = [hit EXCEPT ![p] = hit[p] \union {"early"}]
    BY ONLY <2>1, <2>3, p \in Process
  <2> QED BY ONLY <1>2, <2>2, <2>3, Zenon
<1>4. stack' \in Stacks /\ OthersKept(p) BY <1>1, StartFacts
<1>5. TypeOK'
  <2>1. events \in [Process -> Nat] BY DEF TypeOK
  <2>2. events' \in [Process -> Nat] BY ONLY <1>1, <2>1, p \in Process
  <2>3. stack' \in [Process -> Seq([table : {"event", "stats", "none"},
           at : {"instance", "again", "insert", "id", "child", "disable"}])]
    BY <1>4 DEF Stacks, Frames, Labels
  <2> QED BY <1>1, <1>3, <2>2, <2>3 DEF TypeOK
<1>6. OthersSame(p) BY <1>1, <1>3, <1>4 DEF OthersSame, OthersKept
<1>7. Local(p)' BY <1>1, <1>3, CallBegins
<1> QED BY <1>5, <1>6, <1>7 DEF Preserved

\* A step that leaves the process without an activation, its flag, its rows and its
\* ids as they were: what it disconnects, and whose hooks are in.
LEMMA Outside ==
  ASSUME Stores, NEW p \in Process, stack[p] = <<>>, UNCHANGED stack,
         UNCHANGED <<is_request_created, request_id, last, number, tables>>,
         enabled'[p] => enabled[p],
         connected'[p] => connected[p],
         db_file'[p] = db_file[p] \/ hit'[p] \intersect {"path", "badpath"} # {},
         hit[p] \subseteq hit'[p], hit'[p] \subseteq hit[p] \union {"path", "badpath"},
         hooks'[p] = "none" /\ enabled'[p] => ~connected'[p],
         phase'[p] \in {"closing", "out"} => hooks'[p] # "rinit"
  PROVE  Local(p)'
<1> USE DEF Stores, tables
<1>1. RowsOf(p)' = RowsOf(p) /\ DOMAIN <<>> = {} /\ Len(<<>>) = 0
  BY RowsKept
<1>2. Local(p) OBVIOUS
<1>3. \A labels : ~TopAt(p, labels)' /\ ~TopAt(p, labels) BY DEF TopAt
<1>4. Nesting(p)' BY <1>1, <1>3 DEF Nesting, Nested
<1>5. Counting(p)' BY <1>1, <1>2, <1>3 DEF Local, Counting, Nested
<1>6. Linking(p)'
  <2>1. Sound(p)' => Sound(p) /\ db_file'[p] = db_file[p] BY DEF Sound
  <2>2. db_file'[p] = db_file[p] => \A i : OwnId(p, i) => OwnId(p, i)' BY DEF OwnId, Owner
  <2> QED BY <1>1, <1>2, <1>3, <2>1, <2>2 DEF Local, Linking
<1> QED BY <1>4, <1>5, <1>6 DEF Local

LEMMA ProcessStatsStep ==
  ASSUME Stores, NEW p \in Process, process_stats(p) PROVE Preserved(p)
<1> USE DEF Stores, locals, tables
<1>1. /\ stack[p] = <<>> /\ hooks[p] = "rinit" /\ phase' = [phase EXCEPT ![p] = "stats"]
      /\ UNCHANGED <<enabled, db_file, locals, hooks, number, events, hit, tables>>
      /\ \/ enabled[p] /\ stack' = [stack EXCEPT ![p] = <<Frame("stats", Check(p))>>]
         \/ UNCHANGED stack
  BY DEF process_stats
<1>2. stack' \in Stacks /\ OthersKept(p) BY <1>1, StartFacts, StackKept
<1>3. phase'[p] = "stats" /\ phase' \in [Process -> {"startup", "script", "stats", "closing", "out"}]
      /\ \A q \in Process \ {p} : phase'[q] = phase[q]
  BY <1>1 DEF TypeOK
<1>4. TypeOK' BY <1>1, <1>2, <1>3, StackType DEF TypeOK, Stacks, Frames, Labels
<1>5. OthersSame(p) BY <1>1, <1>2, <1>3 DEF OthersSame, OthersKept
<1>6. Local(p)'
  <2>1. CASE UNCHANGED stack BY <1>1, <1>3, <2>1, Outside
  <2>2. CASE enabled[p] /\ stack' = [stack EXCEPT ![p] = <<Frame("stats", Check(p))>>]
    BY <1>1, <1>3, <2>2, CallBegins
  <2> QED BY <1>1, <2>1, <2>2
<1> QED BY <1>4, <1>5, <1>6 DEF Preserved

LEMMA RshutdownStep ==
  ASSUME Stores, NEW p \in Process, rshutdown(p) \/ EndRequest(p) PROVE Preserved(p)
<1> USE DEF Stores, locals, tables
<1>1. /\ stack[p] = <<>> /\ UNCHANGED stack
      /\ UNCHANGED <<enabled, is_request_created, request_id, last, number, events, hit, tables>>
  BY DEF rshutdown, Unhook, EndRequest, Local, Nesting
<1>2. /\ phase' \in [Process -> {"startup", "script", "stats", "closing", "out"}]
      /\ phase'[p] \in {"closing", "out"} /\ \A q \in Process \ {p} : phase'[q] = phase[q]
  BY DEF rshutdown, Unhook, EndRequest, TypeOK
<1>3. /\ connected' \in [Process -> BOOLEAN] /\ (connected'[p] => connected[p])
      /\ \A q \in Process \ {p} : connected'[q] = connected[q]
  <2>1. connected \in [Process -> BOOLEAN] BY DEF TypeOK
  <2>2. UNCHANGED connected \/ Disconnect(p) BY DEF rshutdown, EndRequest
  <2> HIDE DEF Stores, tables
  <2> QED BY ONLY <2>1, <2>2, p \in Process DEF Disconnect
<1>4. /\ hooks' \in [Process -> {"minit", "rinit", "none"}]
      /\ \A q \in Process \ {p} : hooks'[q] = hooks[q]
      /\ hooks'[p] # "rinit" /\ (hooks'[p] = "none" /\ enabled[p] => ~connected'[p])
  <2>1. /\ connected \in [Process -> BOOLEAN]
        /\ hooks \in [Process -> {"minit", "rinit", "none"}]
    BY DEF TypeOK
  <2>2. hooks[p] = "none" /\ enabled[p] => ~connected[p] BY DEF Local, Nesting
  <2>3. CASE rshutdown(p)
    <3>1. hooks' = [hooks EXCEPT ![p] = IF hooks[p] = "rinit" THEN "none" ELSE hooks[p]]
      BY <2>3 DEF rshutdown, Unhook
    <3>2. IF hooks[p] = "rinit" /\ enabled[p] THEN Disconnect(p) ELSE UNCHANGED connected
      BY <2>3 DEF rshutdown
    <3> HIDE DEF Stores, tables
    <3> QED BY ONLY <2>1, <2>2, <3>1, <3>2, p \in Process DEF Disconnect
  <2>4. CASE EndRequest(p)
    <3>1. hooks[p] # "rinit" BY <2>4 DEF EndRequest, Local, Nesting
    <3> QED BY <1>3, <2>1, <2>2, <2>4, <3>1 DEF EndRequest
  <2> QED BY <2>3, <2>4
<1>5. /\ db_file' \in [Process -> Files] /\ \A q \in Process \ {p} : db_file'[q] = db_file[q]
      /\ (db_file'[p] = db_file[p] \/ hit'[p] \intersect {"path", "badpath"} # {})
  <2>1. Home \in Files /\ db_file \in [Process -> Files] BY SqliteAssumption DEF TypeOK
  <2>2. CASE UNCHANGED db_file BY <2>1, <2>2
  <2>3. CASE db_file' = [db_file EXCEPT ![p] = Home] /\ hit[p] \intersect {"path", "badpath"} # {}
    BY <1>1, <2>1, <2>3
  <2> QED BY <2>2, <2>3 DEF rshutdown, Unhook, EndRequest
<1>6. TypeOK' BY <1>1, <1>2, <1>3, <1>4, <1>5 DEF TypeOK
<1>7. OthersSame(p) BY <1>1, <1>2, <1>3, <1>4, <1>5 DEF OthersSame
<1>8. Local(p)' BY <1>1, <1>2, <1>3, <1>4, <1>5, Outside
<1> QED BY <1>6, <1>7, <1>8 DEF Preserved

LEMMA OnUpdateDBFileStep ==
  ASSUME Stores, NEW p \in Process, NEW f \in Files, OnUpdateDBFile(p, f)
  PROVE  Preserved(p)
<1> USE DEF Stores, locals, tables
<1>1. /\ stack[p] = <<>> /\ UNCHANGED stack /\ phase[p] = "script"
      /\ hit' = [hit EXCEPT ![p] = hit[p] \union {"path"}]
      /\ UNCHANGED <<enabled, is_request_created, request_id, last, hooks, phase, number,
                     events, tables>>
  BY DEF OnUpdateDBFile, Fault, serving
<1>2. /\ hit' \in [Process -> SUBSET Faults] /\ hit'[p] = hit[p] \union {"path"}
      /\ \A q \in Process \ {p} : hit'[q] = hit[q]
  <2>1. hit \in [Process -> SUBSET Faults] /\ "path" \in Faults BY DEF TypeOK, Faults
  <2> QED BY <1>1, <2>1
<1>3. /\ db_file' \in [Process -> Files] /\ connected' \in [Process -> BOOLEAN]
      /\ connected'[p] => connected[p]
      /\ \A q \in Process \ {p} : db_file'[q] = db_file[q] /\ connected'[q] = connected[q]
  <2>1. db_file \in [Process -> Files] /\ connected \in [Process -> BOOLEAN] BY DEF TypeOK
  <2>2. \/ db_file' = [db_file EXCEPT ![p] = f] /\ connected' = [connected EXCEPT ![p] = FALSE]
        \/ UNCHANGED <<db_file, connected>>
    BY DEF OnUpdateDBFile, Disconnect
  <2> QED BY ONLY <2>1, <2>2, p \in Process, f \in Files
<1>4. TypeOK' BY <1>1, <1>2, <1>3 DEF TypeOK
<1>5. OthersSame(p) BY <1>1, <1>2, <1>3 DEF OthersSame
<1>6. hooks[p] = "none" /\ enabled[p] => ~connected[p] BY DEF Local, Nesting
<1>7. Local(p)' BY <1>1, <1>2, <1>3, <1>6, Outside
<1> QED BY <1>4, <1>5, <1>7 DEF Preserved

LEMMA OnUpdateEmptyPathStep ==
  ASSUME Stores, NEW p \in Process, OnUpdateEmptyPath(p) PROVE Preserved(p)
<1> USE DEF Stores, locals, tables
<1>1. /\ stack[p] = <<>> /\ UNCHANGED stack /\ phase[p] = "script"
      /\ enabled' = [enabled EXCEPT ![p] = FALSE]
      /\ UNCHANGED <<db_file, locals, hooks, phase, number, events, hit, tables>>
  BY DEF OnUpdateEmptyPath, serving
<1>2. TypeOK' /\ ~enabled'[p] BY <1>1 DEF TypeOK
<1>3. OthersSame(p) BY <1>1 DEF TypeOK, OthersSame
<1>4. Local(p)' BY <1>1, <1>2, Outside
<1> QED BY <1>2, <1>3, <1>4 DEF Preserved

\* The error of the setting: its own activation stays below that of the call.
LEMMA BadPathFacts ==
  ASSUME TypeOK, NEW p \in Process,
         stack' = [stack EXCEPT ![p] =
                    (IF WantsCoreWarnings THEN <<Frame("event", Check(p))>> ELSE <<>>)
                      \o <<Frame("none", "disable")>>]
  PROVE  /\ stack' \in Stacks /\ OthersKept(p) /\ stack'[p] # <<>>
         /\ \/ /\ Len(stack'[p]) = 1 /\ DOMAIN stack'[p] = {1}
               /\ stack'[p][1] = [table |-> "none", at |-> "disable"]
            \/ /\ Len(stack'[p]) = 2 /\ DOMAIN stack'[p] = {1, 2}
               /\ stack'[p][1] = [table |-> "event", at |-> Begin(p)]
               /\ stack'[p][2] = [table |-> "none", at |-> "disable"]
<1> DEFINE f == Frame("event", Check(p)) g == Frame("none", "disable")
           new == (IF WantsCoreWarnings THEN <<f>> ELSE <<>>) \o <<g>>
<1>1. /\ f \in Frames /\ f = [table |-> "event", at |-> Begin(p)]
      /\ g \in Frames /\ g = [table |-> "none", at |-> "disable"]
  BY CheckIsBegin DEF Frame, Frames, Labels
<1>2. stack \in Stacks /\ stack' = [stack EXCEPT ![p] = new] BY StackFacts
<1> HIDE DEF f, g
<1>3. new = <<g>> \/ new = <<f, g>>
  <2>1. <<f>> \in Seq(Frames) /\ <<g>> \in Seq(Frames) BY <1>1
  <2>2. <<>> \o <<g>> = <<g>> BY <2>1, ConcatEmptySeq
  <2>3. <<f>> \o <<g>> = Append(<<f>>, g) BY <1>1, <2>1, AppendIsConcat
  <2>4. Append(<<f>>, g) = <<f, g>>
    <3>1. <<f, g>> \in Seq(Frames) /\ Len(<<f>>) = 1 /\ Len(<<f, g>>) = 2
          /\ <<f>>[1] = f /\ <<f, g>>[1] = f /\ <<f, g>>[2] = g
      BY <1>1
    <3>2. /\ Append(<<f>>, g) \in Seq(Frames) /\ Len(Append(<<f>>, g)) = 2
          /\ Append(<<f>>, g)[1] = f /\ Append(<<f>>, g)[2] = g
      BY <1>1, <2>1, <3>1, AppendProperties
    <3>3. 1..2 = {1, 2} OBVIOUS
    <3>4. \A i \in 1..Len(Append(<<f>>, g)) : Append(<<f>>, g)[i] = <<f, g>>[i]
      BY <3>1, <3>2, <3>3
    <3> QED BY <3>1, <3>2, <3>4, SeqEqual
  <2> QED BY <2>2, <2>3, <2>4
<1>4. /\ <<g>> \in Seq(Frames) /\ Len(<<g>>) = 1 /\ DOMAIN <<g>> = {1} /\ <<g>>[1] = g
      /\ <<f, g>> \in Seq(Frames) /\ Len(<<f, g>>) = 2 /\ DOMAIN <<f, g>> = {1, 2}
      /\ <<f, g>>[1] = f /\ <<f, g>>[2] = g /\ <<g>> # <<>> /\ <<f, g>> # <<>>
  BY <1>1
<1> HIDE DEF new
<1>5. stack'[p] = new /\ stack' \in Stacks /\ OthersKept(p)
  <2>1. new \in Seq(Frames) BY <1>3, <1>4
  <2> QED BY <1>2, <2>1 DEF Stacks, OthersKept
<1> QED BY <1>1, <1>3, <1>4, <1>5

LEMMA OnUpdateBadPathStep ==
  ASSUME Stores, NEW p \in Process, NEW f \in Files, OnUpdateBadPath(p, f)
  PROVE  Preserved(p)
<1> USE DEF Stores, tables
<1>1. /\ stack[p] = <<>> /\ hooks[p] = "rinit" /\ phase[p] = "script" /\ enabled[p]
      /\ db_file' = [db_file EXCEPT ![p] = f] /\ connected' = [connected EXCEPT ![p] = FALSE]
      /\ hit' = [hit EXCEPT ![p] = hit[p] \union {"badpath"}]
      /\ UNCHANGED <<enabled, is_request_created, request_id, last, hooks, phase, number,
                     events, tables>>
  BY DEF OnUpdateBadPath, Disconnect, Fault, serving
<1>2. /\ stack' \in Stacks /\ OthersKept(p) /\ stack'[p] # <<>>
      /\ \/ /\ Len(stack'[p]) = 1 /\ DOMAIN stack'[p] = {1}
            /\ stack'[p][1] = [table |-> "none", at |-> "disable"]
         \/ /\ Len(stack'[p]) = 2 /\ DOMAIN stack'[p] = {1, 2}
            /\ stack'[p][1] = [table |-> "event", at |-> Begin(p)]
            /\ stack'[p][2] = [table |-> "none", at |-> "disable"]
  BY BadPathFacts DEF OnUpdateBadPath
<1>3. /\ hit' \in [Process -> SUBSET Faults] /\ hit'[p] = hit[p] \union {"badpath"}
      /\ \A q \in Process \ {p} : hit'[q] = hit[q]
  <2>1. hit \in [Process -> SUBSET Faults] /\ "badpath" \in Faults BY DEF TypeOK, Faults
  <2> QED BY <1>1, <2>1
<1>4. TypeOK' BY <1>1, <1>2, <1>3 DEF TypeOK, Stacks, Frames, Labels
<1>5. OthersSame(p) BY <1>1, <1>2, <1>3 DEF TypeOK, OthersSame, OthersKept
<1>6. ~connected'[p] BY <1>1 DEF TypeOK
<1>7. /\ ~Nested(p)' /\ ~TopAt(p, {"insert", "id", "child"})'
      /\ ~TopAt(p, {"id"})' /\ ~TopAt(p, {"insert", "id"})'
      /\ (TopAt(p, {"instance"})' => ~is_request_created[p])
      /\ \A k \in DOMAIN stack'[p] : At(p, k)' \in {"instance", "insert"} => ~is_request_created[p]
  BY <1>2, <1>6 DEF Nested, TopAt, At, Begin
<1>8. Nesting(p)'
  <2>1. enabled'[p] /\ hooks'[p] = "rinit" /\ phase'[p] = "script" BY <1>1
  <2>2. /\ Len(stack'[p]) <= 3 /\ (Len(stack'[p]) = 3 => At(p, 3)' = "disable")
        /\ \A k \in DOMAIN stack'[p] :
             /\ At(p, k)' = "disable" => k = Len(stack'[p])
             /\ At(p, k)' # "disable" => stack'[p][k].table \in {"event", "stats"}
             /\ k >= 2 => At(p, k)' \in {"insert", "child", "disable"}
    <3>1. Begin(p) \in {"insert", "child", "again", "instance"} BY DEF Begin
    <3>2. CASE Len(stack'[p]) = 1
      BY <1>2, <3>2 DEF At
    <3>3. CASE Len(stack'[p]) = 2
      BY <1>2, <3>1, <3>3 DEF At
    <3> QED BY <1>2, <3>2, <3>3
  <2> QED BY <1>6, <1>7, <2>1, <2>2 DEF Nesting
<1>9. Counting(p)'
  <2>1. RowsOf(p)' = RowsOf(p) BY <1>1, RowsKept
  <2>2. Counting(p) /\ ~TopAt(p, {"id"}) BY <1>1 DEF Local, TopAt
  <2>3. ~is_request_created[p] => RowsOf(p) = {} /\ Cardinality(RowsOf(p)) = 0
    BY <2>2, FS_EmptySet DEF Counting
  <2>4. "schema" \notin hit'[p] => "schema" \notin hit[p] BY <1>3
  <2>5. \A k \in DOMAIN stack'[p] :
          At(p, k)' \in {"instance", "insert"} => Cardinality(RowsOf(p)) <= 1
    BY <1>7, <2>3
  <2> QED BY <1>1, <1>7, <2>1, <2>2, <2>4, <2>5 DEF Counting
<1>10. Linking(p)' BY <1>3 DEF Linking, Sound
<1> QED BY <1>4, <1>5, <1>8, <1>9, <1>10 DEF Preserved, Local

-----------------------------------------------------------------------------
(* Inside a call *)

\* With no call inside another there is the call's activation, and perhaps that of
\* the setting below it.
LEMMA Shape ==
  ASSUME Stores, NEW p \in Process, stack[p] # <<>>
  PROVE  /\ Len(stack[p]) \in 1..3 /\ DOMAIN stack[p] = 1..Len(stack[p])
         /\ ~Nested(p) => /\ Len(stack[p]) \in 1..2
                          /\ \A k \in DOMAIN stack[p] : k # 1 => k = 2 /\ At(p, k) = "disable"
         /\ Nested(p) => At(p, 2) \in {"insert", "child"}
<1>1. Len(stack[p]) \in Nat /\ Len(stack[p]) >= 1 /\ DOMAIN stack[p] = 1..Len(stack[p])
  BY StackFacts DEF Stores
<1>2. /\ Len(stack[p]) <= 3
      /\ \A k \in DOMAIN stack[p] :
           /\ At(p, k) = "disable" => k = Len(stack[p])
           /\ k >= 2 => At(p, k) \in {"insert", "child", "disable"}
  BY DEF Stores, Local, Nesting
<1>3. Len(stack[p]) \in 1..3
  <2> DEFINE n == Len(stack[p])
  <2>1. n \in Nat /\ n >= 1 /\ n <= 3 BY <1>1, <1>2
  <2> HIDE DEF n
  <2>2. n \in 1..3 BY <2>1
  <2> QED BY <2>2 DEF n
<1>4. CASE Len(stack[p]) = 1
  BY <1>1, <1>4 DEF Nested
<1>5. CASE Len(stack[p]) >= 2
  <2>1. 2 \in DOMAIN stack[p] BY <1>1, <1>5
  <2>2. ~Nested(p) => Len(stack[p]) = 2 BY <1>2, <1>5, <2>1 DEF Nested
  <2>3. 1..2 = {1, 2} OBVIOUS
  <2> QED BY ONLY <1>1, <1>2, <1>3, <1>5, <2>1, <2>2, <2>3 DEF Nested
<1> QED BY <1>3, <1>4, <1>5

\* An activation returns.
LEMMA Popped ==
  ASSUME Stores, NEW p \in Process, TopAt(p, {"child", "again", "disable"}), Pop(p),
         UNCHANGED <<db_file, connected, is_request_created, request_id, hooks, phase, number, requests>>,
         enabled'[p] = enabled[p] \/ TopAt(p, {"disable"}),
         last'[p] = last[p] \/ TopAt(p, {"child"}),
         hit[p] \subseteq hit'[p], hit'[p] \subseteq hit[p] \union {"busy", "open"}
  PROVE  Local(p)'
<1> USE DEF Stores
<1>1. /\ stack[p] # <<>> /\ At(p, 1) \in {"child", "again", "disable"} /\ Len(stack[p]) \in 1..3
      /\ DOMAIN stack[p] = 1..Len(stack[p])
      /\ (~Nested(p) => \A k \in DOMAIN stack[p] : k # 1 => k = 2 /\ At(p, k) = "disable")
      /\ (Nested(p) => At(p, 2) \in {"insert", "child"})
  BY Shape DEF TopAt
<1>2. /\ Len(stack'[p]) = Len(stack[p]) - 1 /\ DOMAIN stack'[p] = 1..Len(stack[p]) - 1
      /\ (stack'[p] = <<>> <=> Len(stack[p]) = 1)
      /\ \A k \in 1..Len(stack[p]) - 1 : stack'[p][k] = stack[p][k + 1] /\ At(p, k)' = At(p, k + 1)
  BY <1>1, PopFacts DEF At
<1>3. \A k \in DOMAIN stack'[p] :
        k + 1 \in DOMAIN stack[p] /\ k + 1 # 1 /\ k + 1 >= 2
  BY <1>1, <1>2
<1>4. Local(p) /\ RowsOf(p)' = RowsOf(p) BY RowsKept
<1>5. /\ Len(stack[p]) <= 3 /\ (Len(stack[p]) = 3 => At(p, 3) = "disable")
      /\ \A k \in DOMAIN stack[p] :
           /\ At(p, k) = "disable" => k = Len(stack[p])
           /\ At(p, k) # "disable" => stack[p][k].table \in {"event", "stats"}
           /\ k >= 2 => At(p, k) \in {"insert", "child", "disable"}
  BY <1>4 DEF Local, Nesting
<1>6. ~Nested(p)'
  <2> SUFFICES ASSUME Len(stack'[p]) >= 2 PROVE At(p, 2)' = "disable"
    BY DEF Nested
  <2>1. Len(stack[p]) = 3 /\ 2 \in 1..Len(stack[p]) - 1 BY <1>1, <1>2
  <2> QED BY <1>2, <1>5, <2>1
<1>7. ASSUME stack'[p] # <<>>
      PROVE  1 \in DOMAIN stack'[p] /\ At(p, 1)' = At(p, 2) /\ 2 \in DOMAIN stack[p]
             /\ Len(stack[p]) >= 2 /\ At(p, 1) # "disable"
  <2>1. Len(stack[p]) \in 2..3 BY <1>1, <1>2, <1>7
  <2>2. 1 \in 1..Len(stack[p]) - 1 /\ 1 \in DOMAIN stack[p] /\ 2 \in DOMAIN stack[p]
    <3> DEFINE n == Len(stack[p])
    <3>1. n \in 2..3 /\ DOMAIN stack[p] = 1..n BY <1>1, <2>1
    <3> HIDE DEF n
    <3>2. 1 \in 1..n - 1 /\ 1 \in 1..n /\ 2 \in 1..n BY <3>1
    <3> QED BY <3>1, <3>2 DEF n
  <2> QED BY <1>2, <1>5, <2>1, <2>2
<1>8. /\ TopAt(p, {"instance", "again", "id"})' = FALSE
      /\ (TopAt(p, {"insert", "child"})' => Nested(p))
  BY <1>5, <1>7 DEF TopAt, Nested
<1>9. /\ ~TopAt(p, {"id"})' /\ ~TopAt(p, {"instance"})' /\ ~TopAt(p, {"instance", "again"})'
      /\ (TopAt(p, {"insert", "id"})' => Nested(p))
      /\ (TopAt(p, {"insert", "id", "child"})' => Nested(p))
  BY <1>8 DEF TopAt
<1>10. Nesting(p)'
  <2>1. /\ stack'[p] # <<>> => enabled'[p]
        /\ hooks'[p] # "none" /\ phase'[p] \notin {"closing", "out"}
    BY <1>1, <1>4, <1>7 DEF Local, Nesting, TopAt
  <2>2. \A k \in DOMAIN stack'[p] :
           /\ At(p, k)' = "disable" => k = Len(stack'[p])
           /\ At(p, k)' # "disable" => stack'[p][k].table \in {"event", "stats"}
           /\ k >= 2 => At(p, k)' \in {"insert", "child", "disable"}
    <3> TAKE k \in DOMAIN stack'[p]
    <3>1. /\ k \in Nat /\ k \in 1..Len(stack[p]) - 1
          /\ stack'[p][k] = stack[p][k + 1] /\ At(p, k)' = At(p, k + 1)
      BY <1>1, <1>2
    <3>2. k + 1 = Len(stack[p]) => k = Len(stack'[p]) BY <1>1, <1>2, <3>1
    <3>3. k + 1 \in DOMAIN stack[p] /\ k + 1 >= 2 BY <1>3
    <3> QED BY <1>5, <3>1, <3>2, <3>3
  <2>3. Nested(p) => connected[p] BY <1>4 DEF Local, Nesting
  <2>4. Len(stack'[p]) <= 2 BY <1>1, <1>2
  <2> QED BY <1>1, <1>6, <1>9, <2>1, <2>2, <2>3, <2>4 DEF Nesting
<1>11. Counting(p)'
  <2>1. Counting(p) /\ ~TopAt(p, {"id"}) BY <1>1, <1>4 DEF Local, TopAt
  <2>2. "schema" \notin hit'[p] => "schema" \notin hit[p] /\ ~Nested(p) BY <2>1 DEF Counting
  <2>3. \A k \in DOMAIN stack'[p] :
          At(p, k)' \in {"instance", "insert"} => Cardinality(RowsOf(p)) <= 1
    BY <1>2, <1>3, <2>1 DEF Counting
  <2> QED BY <1>4, <1>6, <1>9, <2>1, <2>2, <2>3 DEF Counting
<1>12. Linking(p)'
  <2> SUFFICES ASSUME enabled'[p], Sound(p)' PROVE
      /\ is_request_created[p] => OwnId(p, request_id[p])
      /\ \A k \in DOMAIN stack'[p] : At(p, k)' \in {"again", "child"} => is_request_created[p]
      /\ connected[p] /\ ~is_request_created[p]
           /\ hit'[p] \intersect {"schema", "early"} = {} => last'[p] = 0
    <3>1. \A i : OwnId(p, i)' <=> OwnId(p, i) BY DEF OwnId, Owner
    <3> QED BY <1>9, <3>1 DEF Linking
  <2>1. Sound(p) /\ (enabled[p] \/ stack'[p] = <<>>)
        /\ (hit'[p] \intersect {"schema", "early"} = {} => hit[p] \intersect {"schema", "early"} = {})
    BY <1>7 DEF Sound, TopAt
  <2>2. enabled[p] BY <1>1, <1>4 DEF Local, Nesting
  <2>3. /\ is_request_created[p] => OwnId(p, request_id[p])
        /\ \A k \in DOMAIN stack[p] : At(p, k) \in {"again", "child"} => is_request_created[p]
        /\ connected[p] /\ ~is_request_created[p] /\ ~TopAt(p, {"id"})
             /\ hit[p] \intersect {"schema", "early"} = {} => last[p] = 0
    BY <1>4, <2>1, <2>2 DEF Local, Linking
  <2>4. ~TopAt(p, {"id"}) /\ 1 \in DOMAIN stack[p] BY <1>1 DEF TopAt
  <2>5. ~is_request_created[p] => last'[p] = last[p] BY <2>3, <2>4 DEF TopAt
  <2> QED BY <1>2, <1>3, <2>1, <2>3, <2>4, <2>5
<1> QED BY <1>10, <1>11, <1>12 DEF Local

LEMMA DisableDriverStep ==
  ASSUME Stores, NEW p \in Process, DisableDriver(p) PROVE Preserved(p)
<1> USE DEF Stores, locals, tables, serving
<1>1. /\ TopAt(p, {"disable"}) /\ stack[p] # <<>> /\ Pop(p)
      /\ enabled' = [enabled EXCEPT ![p] = FALSE]
      /\ UNCHANGED <<db_file, locals, serving, hit, tables>>
  BY DEF DisableDriver, Active, Top, TopAt, At
<1>2. stack' \in Stacks /\ OthersKept(p) BY <1>1, PopFacts
<1>3. TypeOK' BY <1>1, <1>2 DEF TypeOK, Stacks, Frames, Labels
<1>4. OthersSame(p) BY <1>1, <1>2 DEF TypeOK, OthersSame, OthersKept
<1>5. TopAt(p, {"child", "again", "disable"}) BY <1>1 DEF TopAt
<1>6. Local(p)' BY <1>1, <1>5, Popped
<1> QED BY <1>3, <1>4, <1>6 DEF Preserved

\* A fault of this step is one more of the request.
LEMMA FaultFacts ==
  ASSUME TypeOK, NEW p \in Process, NEW f \in Faults, Fault(p, f)
  PROVE  /\ hit' \in [Process -> SUBSET Faults] /\ hit'[p] = hit[p] \union {f}
         /\ \A q \in Process \ {p} : hit'[q] = hit[q]
<1>1. hit \in [Process -> SUBSET Faults] BY DEF TypeOK
<1> QED BY <1>1 DEF Fault

LEMMA ChildRejectedStep ==
  ASSUME Stores, NEW p \in Process, ChildRejected(p) PROVE Preserved(p)
<1> USE DEF Stores, locals, tables, serving
<1>1. /\ TopAt(p, {"child"}) /\ stack[p] # <<>> /\ Pop(p) /\ Fault(p, "busy")
      /\ UNCHANGED <<enabled, db_file, locals, serving, tables>>
  BY DEF ChildRejected, Active, Top, TopAt, At
<1>2. stack' \in Stacks /\ OthersKept(p) BY <1>1, PopFacts
<1>3. /\ hit' \in [Process -> SUBSET Faults] /\ hit'[p] = hit[p] \union {"busy"}
      /\ \A q \in Process \ {p} : hit'[q] = hit[q]
  BY <1>1, FaultFacts DEF Faults
<1>4. TypeOK' BY <1>1, <1>2, <1>3 DEF TypeOK, Stacks, Frames, Labels
<1>5. OthersSame(p) BY <1>1, <1>2, <1>3 DEF OthersSame, OthersKept
<1>6. TopAt(p, {"child", "again", "disable"}) BY <1>1 DEF TopAt
<1>7. Local(p)' BY <1>1, <1>3, <1>6, Popped
<1> QED BY <1>4, <1>5, <1>7 DEF Preserved

LEMMA InsertChildStep ==
  ASSUME Stores, NEW p \in Process, InsertChild(p) PROVE Preserved(p)
<1> USE DEF Stores, locals, tables, serving
<1> DEFINE f == db_file[p]
           row == [table |-> Top(p).table, request_id |-> request_id[p], owner |-> Owner(p)]
           peers == {i \in DOMAIN children[f] : children[f][i].table = row.table}
<1>1. /\ TopAt(p, {"child"}) /\ stack[p] # <<>> /\ Pop(p)
      /\ children' = [children EXCEPT ![f] = Append(@, row)]
      /\ last' = [last EXCEPT ![p] = Cardinality(peers) + 1]
      /\ UNCHANGED <<enabled, db_file, connected, is_request_created, request_id, serving, hit, requests>>
  BY DEF InsertChild, Active, Top, TopAt, At
<1>2. stack' \in Stacks /\ OthersKept(p) BY <1>1, PopFacts
<1>3. f \in Files /\ row \in Rows
  <2>1. 1 \in DOMAIN stack[p] /\ At(p, 1) = "child" BY <1>1, StackFacts DEF TopAt
  <2>2. stack[p][1].table \in {"event", "stats"} BY <2>1 DEF Local, Nesting
  <2> QED BY <2>2 DEF TypeOK, Rows, Top, Owner
<1>4. Cardinality(peers) \in Nat
  <2>1. DOMAIN children[f] = 1..Len(children[f]) /\ Len(children[f]) \in Nat
    BY <1>3, TableFacts
  <2>2. IsFiniteSet(DOMAIN children[f]) BY <2>1, FS_Interval
  <2> QED BY <2>2, FS_Subset, FS_CardinalityType
<1> HIDE DEF row, peers
<1>5. children' \in [Files -> Seq(Rows)] /\ last' \in [Process -> Nat]
  <2>1. children \in [Files -> Seq(Rows)] /\ last \in [Process -> Nat] BY DEF TypeOK
  <2>2. Append(children[f], row) \in Seq(Rows) BY <1>3, <2>1, AppendProperties
  <2>3. Cardinality(peers) + 1 \in Nat BY <1>4
  <2> QED BY <1>1, <1>3, <2>1, <2>2, <2>3
<1>6. TypeOK' BY <1>1, <1>2, <1>5 DEF TypeOK, Stacks, Frames, Labels
<1>7. OthersSame(p) BY <1>1, <1>2 DEF TypeOK, OthersSame, OthersKept
<1>8. TopAt(p, {"child", "again", "disable"}) BY <1>1 DEF TopAt
<1>9. Local(p)' BY <1>1, <1>8, Popped
<1> QED BY <1>6, <1>7, <1>9 DEF Preserved

\* Neither the stack nor a row has been added: where the process goes on.
LEMMA Moved ==
  ASSUME Stores, NEW p \in Process, NEW at \in {"again", "insert", "child", "id"},
         stack[p] # <<>>, Goto(p, at), OthersSame(p),
         UNCHANGED <<enabled, hooks, phase, number>>, hit[p] \subseteq hit'[p]
  PROVE  /\ (TopAt(p, {"instance", "again"}) => ~Nested(p))
         /\ (Nested(p)' <=> Nested(p)) /\ At(p, 1)' = at
         /\ \A labels : TopAt(p, labels)' <=> at \in labels
         /\ \A k \in DOMAIN stack'[p] : k \in DOMAIN stack[p] /\ (k # 1 => At(p, k)' = At(p, k))
         /\ At(p, 1) # "disable" /\ (at = "again" => ~connected'[p])
              /\ (at # "again" \/ Nested(p) => connected'[p])
            => Nesting(p)'
<1> USE DEF Stores
<1>1. /\ stack'[p] # <<>> /\ Len(stack'[p]) = Len(stack[p]) /\ DOMAIN stack'[p] = DOMAIN stack[p]
      /\ stack'[p][1] = [table |-> stack[p][1].table, at |-> at]
      /\ \A k \in DOMAIN stack[p] : k # 1 => stack'[p][k] = stack[p][k]
  BY GotoFacts DEF Labels
<1>2. /\ Len(stack[p]) \in 1..3 /\ DOMAIN stack[p] = 1..Len(stack[p]) BY Shape
<1>3. Nesting(p) BY DEF Local
<1>4. /\ At(p, 1)' = at
      /\ \A k \in DOMAIN stack'[p] : k \in DOMAIN stack[p] /\ (k # 1 => At(p, k)' = At(p, k))
  BY <1>1 DEF At
<1>5. \A labels : TopAt(p, labels)' <=> at \in labels
  BY <1>1, <1>4 DEF TopAt
<1>6. Len(stack[p]) >= 2 => At(p, 2)' = At(p, 2)
  <2> DEFINE n == Len(stack[p])
  <2>1. n \in 1..3 /\ DOMAIN stack[p] = 1..n BY <1>2
  <2> HIDE DEF n
  <2>2. n >= 2 => 2 \in 1..n BY <2>1
  <2> QED BY <1>1, <1>4, <2>1, <2>2 DEF n
<1>7. Nested(p)' <=> Nested(p) BY <1>1, <1>6 DEF Nested
<1>8. TopAt(p, {"instance", "again"}) => ~Nested(p) BY <1>3 DEF Nesting
<1>9. ASSUME At(p, 1) # "disable", at = "again" => ~connected'[p],
              at # "again" \/ Nested(p) => connected'[p]
       PROVE  Nesting(p)'
  <2>1. Len(stack'[p]) <= 3 /\ (Len(stack'[p]) = 3 => At(p, 3)' = "disable")
    BY <1>1, <1>2, <1>3 DEF Nesting, At
  <2>2. ASSUME NEW k \in DOMAIN stack'[p]
        PROVE  /\ At(p, k)' = "disable" => k = Len(stack'[p])
               /\ At(p, k)' # "disable" => stack'[p][k].table \in {"event", "stats"}
               /\ k >= 2 => At(p, k)' \in {"insert", "child", "disable"}
    <3>1. CASE k = 1
      <4>1. stack[p][1].table \in {"event", "stats"} /\ At(p, 1)' # "disable"
        BY <1>1, <1>3, <1>4, <1>9, <2>2, <3>1 DEF Nesting
      <4> QED BY <1>1, <3>1, <4>1
    <3>2. CASE k # 1
      BY <1>1, <1>3, <1>4, <2>2, <3>2 DEF Nesting
    <3> QED BY <3>1, <3>2
  <2>3. enabled'[p] /\ hooks'[p] # "none" /\ phase'[p] \notin {"closing", "out"}
    BY <1>3 DEF Nesting
  <2>4. /\ TopAt(p, {"instance", "again"})' => ~connected'[p]
        /\ TopAt(p, {"insert", "id", "child"})' \/ Nested(p)' => connected'[p]
    BY <1>5, <1>7, <1>9
  <2> QED BY <1>1, <2>1, <2>2, <2>3, <2>4 DEF Nesting
<1> QED BY <1>4, <1>5, <1>7, <1>8, <1>9

LEMMA OpenStep == ASSUME Stores, NEW p \in Process, Open(p) PROVE Preserved(p)
<1> USE DEF Stores, locals, tables, serving
<1> DEFINE at == After(Top(p).at)
<1>1. /\ stack[p] # <<>> /\ TopAt(p, {"instance", "again"}) /\ ~connected[p] /\ Goto(p, at)
      /\ at \in {"insert", "child"} /\ (at = "insert" <=> At(p, 1) = "instance")
      /\ connected' = [connected EXCEPT ![p] = TRUE] /\ last' = [last EXCEPT ![p] = 0]
      /\ UNCHANGED <<enabled, db_file, is_request_created, request_id, serving, hit, tables>>
  BY DEF Open, AtInstance, Active, Top, TopAt, At, After
<1> HIDE DEF at
<1>2. stack' \in Stacks /\ OthersKept(p) BY <1>1, GotoFacts DEF Labels
<1>3. TypeOK' /\ connected'[p] /\ last'[p] = 0
  BY <1>1, <1>2 DEF TypeOK, Stacks, Frames, Labels
<1>4. OthersSame(p) BY <1>1, <1>2 DEF TypeOK, OthersSame, OthersKept
<1>5. /\ ~Nested(p) /\ ~Nested(p)' /\ At(p, 1)' = at
      /\ \A labels : TopAt(p, labels)' <=> at \in labels
      /\ \A k \in DOMAIN stack'[p] : k \in DOMAIN stack[p] /\ (k # 1 => At(p, k)' = At(p, k))
      /\ Nesting(p)'
  BY <1>1, <1>3, <1>4, Moved DEF TopAt
<1>6. Local(p) /\ RowsOf(p)' = RowsOf(p) BY <1>1, RowsKept
<1>7. 1 \in DOMAIN stack[p] BY <1>1, StackFacts
<1>8. Counting(p)'
  <2>1. Counting(p) /\ ~TopAt(p, {"id"}) BY <1>1, <1>6 DEF Local, TopAt
  <2>2. at = "insert" => ~is_request_created[p] /\ Cardinality(RowsOf(p)) <= 1
    BY <1>1, <1>7, <2>1 DEF Counting, TopAt
  <2>3. \A k \in DOMAIN stack'[p] :
          At(p, k)' \in {"instance", "insert"} => Cardinality(RowsOf(p)) <= 1
    BY <1>1, <1>5, <2>1, <2>2 DEF Counting
  <2> QED BY <1>1, <1>5, <1>6, <2>1, <2>2, <2>3 DEF Counting
<1>9. Linking(p)'
  <2>1. \A i : OwnId(p, i)' <=> OwnId(p, i) BY <1>1 DEF OwnId, Owner
  <2>2. Sound(p)' <=> Sound(p) BY <1>1 DEF Sound
  <2>3. ASSUME enabled[p], Sound(p)
        PROVE  \A k \in DOMAIN stack'[p] : At(p, k)' \in {"again", "child"} => is_request_created[p]
    <3>1. \A k \in DOMAIN stack[p] : At(p, k) \in {"again", "child"} => is_request_created[p]
      BY <1>6, <2>3 DEF Local, Linking
    <3> QED BY <1>1, <1>5, <1>7, <3>1 DEF TopAt
  <2> QED BY <1>1, <1>3, <1>5, <1>6, <2>1, <2>2, <2>3 DEF Local, Linking
<1> QED BY <1>3, <1>4, <1>5, <1>8, <1>9 DEF Preserved, Local

LEMMA OpenFailsStep == ASSUME Stores, NEW p \in Process, OpenFails(p) PROVE Preserved(p)
<1> USE DEF Stores, locals, tables, serving
<1>1. /\ stack[p] # <<>> /\ TopAt(p, {"instance", "again"}) /\ ~connected[p] /\ Fault(p, "open")
      /\ UNCHANGED <<enabled, db_file, locals, serving, tables>>
      /\ \/ TopAt(p, {"instance"}) /\ Goto(p, "again")
         \/ TopAt(p, {"again"}) /\ Pop(p)
  BY DEF OpenFails, AtInstance, Active, Top, TopAt, At
<1>2. stack' \in Stacks /\ OthersKept(p) BY <1>1, GotoFacts, PopFacts DEF Labels
<1>3. /\ hit' \in [Process -> SUBSET Faults] /\ hit'[p] = hit[p] \union {"open"}
      /\ \A q \in Process \ {p} : hit'[q] = hit[q]
  BY <1>1, FaultFacts DEF Faults
<1>4. TypeOK' BY <1>1, <1>2, <1>3 DEF TypeOK, Stacks, Frames, Labels
<1>5. OthersSame(p) BY <1>1, <1>2, <1>3 DEF OthersSame, OthersKept
<1>6. CASE TopAt(p, {"again"}) /\ Pop(p)
  <2>1. TopAt(p, {"child", "again", "disable"}) BY <1>6 DEF TopAt
  <2>2. Local(p)' BY <1>1, <1>3, <1>6, <2>1, Popped
  <2> QED BY <1>4, <1>5, <2>2 DEF Preserved
<1>7. CASE TopAt(p, {"instance"}) /\ Goto(p, "again")
  <2>1. /\ ~Nested(p) /\ ~Nested(p)' /\ At(p, 1)' = "again"
        /\ \A labels : TopAt(p, labels)' <=> "again" \in labels
        /\ \A k \in DOMAIN stack'[p] : k \in DOMAIN stack[p] /\ (k # 1 => At(p, k)' = At(p, k))
        /\ Nesting(p)'
    BY <1>1, <1>3, <1>5, <1>7, Moved DEF TopAt
  <2>2. Local(p) /\ RowsOf(p)' = RowsOf(p) BY <1>1, RowsKept
  <2>3. Counting(p)'
    <3>1. Counting(p) /\ ~TopAt(p, {"id"}) BY <1>1, <2>2 DEF Local, TopAt
    <3>2. \A k \in DOMAIN stack'[p] :
            At(p, k)' \in {"instance", "insert"} => Cardinality(RowsOf(p)) <= 1
      BY <2>1, <3>1 DEF Counting
    <3>3. "schema" \notin hit'[p] => "schema" \notin hit[p] BY <1>3
    <3> QED BY <1>1, <2>1, <2>2, <3>1, <3>2, <3>3 DEF Counting
  <2>4. Linking(p)' BY <1>3 DEF Linking, Sound
  <2> QED BY <1>4, <1>5, <2>1, <2>3, <2>4 DEF Preserved, Local
<1> QED BY <1>1, <1>6, <1>7

LEMMA RequestRejectedStep ==
  ASSUME Stores, NEW p \in Process, RequestRejected(p) PROVE Preserved(p)
<1> USE DEF Stores, locals, tables, serving
<1>1. /\ stack[p] # <<>> /\ TopAt(p, {"insert"}) /\ Goto(p, "id") /\ Fault(p, "busy")
      /\ UNCHANGED <<enabled, db_file, locals, serving, tables>>
  BY DEF RequestRejected, Active, Top, TopAt, At
<1>2. stack' \in Stacks /\ OthersKept(p) BY <1>1, GotoFacts DEF Labels
<1>3. /\ hit' \in [Process -> SUBSET Faults] /\ hit'[p] = hit[p] \union {"busy"}
      /\ \A q \in Process \ {p} : hit'[q] = hit[q]
  BY <1>1, FaultFacts DEF Faults
<1>4. TypeOK' BY <1>1, <1>2, <1>3 DEF TypeOK, Stacks, Frames, Labels
<1>5. OthersSame(p) BY <1>1, <1>2, <1>3 DEF OthersSame, OthersKept
<1>6. Local(p) /\ RowsOf(p)' = RowsOf(p) /\ 1 \in DOMAIN stack[p]
  BY <1>1, RowsKept, StackFacts
<1>7. connected[p] /\ ~TopAt(p, {"id"}) /\ TopAt(p, {"insert", "id"})
  BY <1>1, <1>6 DEF Local, Nesting, TopAt
<1>8. /\ (Nested(p)' <=> Nested(p)) /\ At(p, 1)' = "id"
      /\ \A labels : TopAt(p, labels)' <=> "id" \in labels
      /\ \A k \in DOMAIN stack'[p] : k \in DOMAIN stack[p] /\ (k # 1 => At(p, k)' = At(p, k))
      /\ Nesting(p)'
  BY <1>1, <1>3, <1>5, <1>7, Moved DEF TopAt
<1>9. Counting(p)'
  <2>1. Counting(p) BY <1>6 DEF Local
  <2>2. \A k \in DOMAIN stack'[p] :
          At(p, k)' \in {"instance", "insert"} => Cardinality(RowsOf(p)) <= 1
    BY <1>8, <2>1 DEF Counting
  <2>3. "schema" \notin hit'[p] => "schema" \notin hit[p] BY <1>3
  <2> QED BY <1>1, <1>6, <1>7, <1>8, <2>1, <2>2, <2>3 DEF Counting
<1>10. Linking(p)'
  <2> SUFFICES ASSUME enabled[p], Sound(p)'
               PROVE  /\ is_request_created[p] => OwnId(p, request_id[p])
                      /\ OwnId(p, last[p])
                      /\ \A k \in DOMAIN stack[p] : At(p, k) \in {"again", "child"} => is_request_created[p]
    <3>1. \A i : OwnId(p, i)' <=> OwnId(p, i) BY <1>1 DEF OwnId, Owner
    <3>2. "id" \in {"id"} /\ "id" \notin {"again", "child"} OBVIOUS
    <3> QED BY <1>1, <1>8, <3>1, <3>2 DEF Linking
  <2>1. Sound(p) /\ hit[p] \intersect {"schema", "early"} = {} BY <1>3 DEF Sound
  <2>2. ~is_request_created[p] BY <1>6, <1>7, <2>1 DEF Local, Counting
  <2>3. last[p] = 0 BY <1>6, <1>7, <2>1, <2>2 DEF Local, Linking
  <2> QED BY <1>6, <2>1, <2>2, <2>3 DEF Local, Linking, OwnId
<1> QED BY <1>4, <1>5, <1>8, <1>9, <1>10 DEF Preserved, Local

LEMMA TakeIdStep == ASSUME Stores, NEW p \in Process, TakeId(p) PROVE Preserved(p)
<1> USE DEF Stores, locals, tables, serving
<1>1. /\ stack[p] # <<>> /\ TopAt(p, {"id"}) /\ Goto(p, Get(p, "again"))
      /\ request_id' = [request_id EXCEPT ![p] = last[p]]
      /\ is_request_created' = [is_request_created EXCEPT ![p] = TRUE]
      /\ UNCHANGED <<enabled, db_file, connected, last, serving, hit, tables>>
  BY DEF TakeId, Active, Top, TopAt, At
<1>2. Local(p) /\ RowsOf(p)' = RowsOf(p) BY <1>1, RowsKept
<1>3. connected[p] BY <1>1, <1>2 DEF Local, Nesting, TopAt
<1>4. Goto(p, "child") BY <1>1, <1>3 DEF Get, After
<1>5. stack' \in Stacks /\ OthersKept(p) BY <1>1, <1>4, GotoFacts DEF Labels
<1>6. TypeOK' /\ is_request_created'[p] /\ request_id'[p] = last[p]
  BY <1>1, <1>5 DEF TypeOK, Stacks, Frames, Labels
<1>7. OthersSame(p) BY <1>1, <1>5 DEF TypeOK, OthersSame, OthersKept
<1>8. /\ (Nested(p)' <=> Nested(p)) /\ At(p, 1)' = "child"
      /\ \A labels : TopAt(p, labels)' <=> "child" \in labels
      /\ \A k \in DOMAIN stack'[p] : k \in DOMAIN stack[p] /\ (k # 1 => At(p, k)' = At(p, k))
      /\ Nesting(p)'
  BY <1>1, <1>3, <1>4, <1>7, Moved DEF TopAt
<1>9. Counting(p)'
  <2>1. Counting(p) BY <1>2 DEF Local
  <2>2. \A k \in DOMAIN stack'[p] :
          At(p, k)' \in {"instance", "insert"} => Cardinality(RowsOf(p)) <= 1
    BY <1>8, <2>1 DEF Counting
  <2> QED BY <1>1, <1>2, <1>6, <1>8, <2>1, <2>2 DEF Counting
<1>10. Linking(p)'
  <2>1. \A i : OwnId(p, i)' <=> OwnId(p, i) BY <1>1 DEF OwnId, Owner
  <2>2. Sound(p)' <=> Sound(p) BY <1>1 DEF Sound
  <2>3. enabled[p] /\ Sound(p) => OwnId(p, last[p]) BY <1>1, <1>2 DEF Local, Linking
  <2> QED BY <1>1, <1>6, <1>8, <2>1, <2>2, <2>3 DEF Linking
<1> QED BY <1>6, <1>7, <1>8, <1>9, <1>10 DEF Preserved, Local

LEMMA SchemaFailsStep ==
  ASSUME Stores, NEW p \in Process, SchemaFails(p) PROVE Preserved(p)
<1> USE DEF Stores, locals, tables, serving
<1> DEFINE next == After(Top(p).at)
<1>1. /\ stack[p] # <<>> /\ TopAt(p, {"instance", "again"}) /\ ~connected[p]
      /\ Fault(p, "schema") /\ Complain(p, next)
      /\ next \in {"insert", "child"} /\ (next = "insert" <=> At(p, 1) = "instance")
      /\ connected' = [connected EXCEPT ![p] = TRUE] /\ last' = [last EXCEPT ![p] = 0]
      /\ UNCHANGED <<enabled, db_file, is_request_created, request_id, serving, tables>>
  BY DEF SchemaFails, AtInstance, Active, Top, TopAt, At, After
<1> HIDE DEF next
<1>2. connected'[p] /\ last'[p] = 0 BY <1>1 DEF TypeOK
<1>3. /\ stack' \in Stacks /\ OthersKept(p) /\ stack'[p] # <<>>
      /\ \/ /\ Len(stack'[p]) = Len(stack[p]) /\ DOMAIN stack'[p] = DOMAIN stack[p]
            /\ stack'[p][1] = [table |-> stack[p][1].table, at |-> next]
            /\ \A k \in DOMAIN stack[p] : k # 1 => stack'[p][k] = stack[p][k]
         \/ /\ Len(stack'[p]) = Len(stack[p]) + 1
            /\ DOMAIN stack'[p] = 1..Len(stack[p]) + 1
            /\ stack'[p][1] = [table |-> "event", at |-> Begin(p)]
            /\ stack'[p][2] = [table |-> stack[p][1].table, at |-> next]
            /\ \A k \in DOMAIN stack[p] : k # 1 => stack'[p][k + 1] = stack[p][k]
  <2>1. TypeOK /\ stack[p] # <<>> /\ Complain(p, next) /\ connected'[p] BY <1>1, <1>2
  <2>2. next \in Labels BY <1>1 DEF Labels
  <2> HIDE DEF Stores, locals, tables, serving
  <2> QED BY ONLY <2>1, <2>2, p \in Process, ComplainFacts
<1>4. /\ hit' \in [Process -> SUBSET Faults] /\ hit'[p] = hit[p] \union {"schema"}
      /\ \A q \in Process \ {p} : hit'[q] = hit[q]
  BY <1>1, FaultFacts DEF Faults
<1>5. TypeOK' BY <1>1, <1>3, <1>4 DEF TypeOK, Stacks, Frames, Labels
<1>6. OthersSame(p) BY <1>1, <1>3, <1>4 DEF TypeOK, OthersSame, OthersKept
<1>7. Local(p) /\ RowsOf(p)' = RowsOf(p) /\ 1 \in DOMAIN stack[p]
  BY <1>1, RowsKept, StackFacts
<1>8. ~Nested(p) BY <1>1, <1>7 DEF Local, Nesting
<1>9. /\ Len(stack[p]) \in 1..2 /\ DOMAIN stack[p] = 1..Len(stack[p])
      /\ \A k \in DOMAIN stack[p] : k # 1 => k = 2 /\ At(p, k) = "disable"
  BY <1>1, <1>8, Shape
<1>10. Len(stack[p]) = 1 \/ Len(stack[p]) = 2 BY <1>9
<1>11. /\ stack[p][1].table \in {"event", "stats"}
       /\ enabled[p] /\ hooks[p] # "none" /\ phase[p] \notin {"closing", "out"}
  BY <1>1, <1>7 DEF Local, Nesting, TopAt
<1>12. 1..1 = {1} /\ 1..2 = {1, 2} /\ 1..3 = {1, 2, 3} OBVIOUS
<1>13. Begin(p) = IF is_request_created[p] THEN "child" ELSE "insert"
  BY <1>2 DEF Begin
\* The activations afterwards: those of the call, perhaps the inner one, and the setting.
<1>14. \/ /\ Len(stack'[p]) = 1 /\ DOMAIN stack'[p] = {1} /\ At(p, 1)' = next
          /\ stack'[p][1].table \in {"event", "stats"}
       \/ /\ Len(stack'[p]) = 2 /\ DOMAIN stack'[p] = {1, 2} /\ At(p, 1)' = next
          /\ stack'[p][1].table \in {"event", "stats"} /\ At(p, 2)' = "disable"
       \/ /\ Len(stack'[p]) = 2 /\ DOMAIN stack'[p] = {1, 2}
          /\ At(p, 1)' = Begin(p) /\ At(p, 2)' = next
          /\ stack'[p][1].table = "event" /\ stack'[p][2].table \in {"event", "stats"}
       \/ /\ Len(stack'[p]) = 3 /\ DOMAIN stack'[p] = {1, 2, 3}
          /\ At(p, 1)' = Begin(p) /\ At(p, 2)' = next /\ At(p, 3)' = "disable"
          /\ stack'[p][1].table = "event" /\ stack'[p][2].table \in {"event", "stats"}
  <2>1. CASE Len(stack[p]) = 1
    <3>1. DOMAIN stack[p] = {1} BY <1>9, <1>12, <2>1
    <3> QED BY <1>3, <1>11, <1>12, <2>1, <3>1 DEF At
  <2>2. CASE Len(stack[p]) = 2
    <3>1. DOMAIN stack[p] = {1, 2} /\ stack[p][2].at = "disable"
      BY <1>9, <1>12, <2>2 DEF At
    <3>2. 2 + 1 = 3 OBVIOUS
    <3> QED BY <1>3, <1>11, <1>12, <2>2, <3>1, <3>2 DEF At
  <2> QED BY <1>10, <2>1, <2>2
<1>15. Nesting(p)'
  <2>1. /\ Len(stack'[p]) <= 3 /\ (Len(stack'[p]) = 3 => At(p, 3)' = "disable")
        /\ \A k \in DOMAIN stack'[p] :
             /\ At(p, k)' = "disable" => k = Len(stack'[p])
             /\ At(p, k)' # "disable" => stack'[p][k].table \in {"event", "stats"}
             /\ k >= 2 => At(p, k)' \in {"insert", "child", "disable"}
    <3>1. Begin(p) \in {"insert", "child"} /\ next \in {"insert", "child"} BY <1>1, <1>13
    <3>2. CASE Len(stack'[p]) = 1 BY <1>14, <3>1, <3>2
    <3>3. CASE Len(stack'[p]) = 2 BY <1>14, <3>1, <3>3
    <3>4. CASE Len(stack'[p]) = 3 BY <1>14, <3>1, <3>4
    <3> QED BY <1>14, <3>2, <3>3, <3>4
  <2>2. ~TopAt(p, {"instance", "again"})' BY <1>1, <1>13, <1>14 DEF TopAt
  <2> QED BY <1>1, <1>2, <1>11, <2>1, <2>2 DEF Nesting
<1>16. /\ ~TopAt(p, {"id"})' /\ ~TopAt(p, {"instance"})' /\ "schema" \in hit'[p]
       /\ (Nested(p)' /\ TopAt(p, {"insert", "id"})' => ~is_request_created[p])
  <2>1. Begin(p) \in {"insert", "child"} /\ next \in {"insert", "child"} BY <1>1, <1>13
  <2>2. At(p, 1)' \in {"insert", "child"} BY <1>14, <2>1
  <2>3. Nested(p)' => At(p, 1)' = Begin(p)
    <3>1. CASE Len(stack'[p]) = 1 BY <3>1 DEF Nested
    <3>2. CASE Len(stack'[p]) = 2 BY <1>14, <2>1, <3>2 DEF Nested
    <3>3. CASE Len(stack'[p]) = 3 BY <1>14, <3>3
    <3> QED BY <1>14, <3>1, <3>2, <3>3
  <2> QED BY <1>4, <1>13, <2>2, <2>3 DEF TopAt
<1>17. Counting(p)'
  <2>1. Counting(p) /\ ~TopAt(p, {"id"}) BY <1>1, <1>7 DEF Local, TopAt
  <2>2. ~is_request_created[p] => RowsOf(p) = {} /\ Cardinality(RowsOf(p)) = 0
    BY <2>1, FS_EmptySet DEF Counting
  <2>3. next = "insert" => ~is_request_created[p]
    BY <1>1, <2>1 DEF Counting, TopAt
  <2>4. \A k \in DOMAIN stack'[p] :
          At(p, k)' \in {"instance", "insert"} => ~is_request_created[p]
    BY <1>1, <1>13, <1>14, <2>3
  <2>5. \A k \in DOMAIN stack'[p] :
          At(p, k)' \in {"instance", "insert"} => Cardinality(RowsOf(p)) <= 1
    BY <2>2, <2>4
  <2> QED BY <1>1, <1>7, <1>16, <2>1, <2>5 DEF Counting
<1>18. Linking(p)'
  <2>1. \A i : OwnId(p, i)' <=> OwnId(p, i) BY <1>1 DEF OwnId, Owner
  <2>2. Sound(p)' => Sound(p) BY <1>4 DEF Sound
  <2>3. ASSUME enabled[p], Sound(p)
        PROVE  \A k \in DOMAIN stack'[p] : At(p, k)' \in {"again", "child"} => is_request_created[p]
    <3>1. At(p, 1) = "again" => is_request_created[p]
      BY <1>7, <2>3 DEF Local, Linking
    <3>2. next = "child" => is_request_created[p] BY <1>1, <3>1 DEF TopAt
    <3> QED BY <1>1, <1>13, <1>14, <3>2
  <2> QED BY <1>1, <1>2, <1>7, <1>16, <2>1, <2>2, <2>3 DEF Local, Linking
<1> QED BY <1>5, <1>6, <1>15, <1>17, <1>18 DEF Preserved, Local

LEMMA InsertRequestStep ==
  ASSUME Stores, NEW p \in Process, InsertRequest(p) PROVE Preserved(p)
<1> USE DEF Stores, locals, serving
<1> DEFINE f == db_file[p] n == Len(requests[f])
<1>1. /\ stack[p] # <<>> /\ TopAt(p, {"insert"}) /\ Goto(p, "id") /\ RequestAdded(p)
      /\ last' = [last EXCEPT ![p] = Len(requests'[f])]
      /\ UNCHANGED <<enabled, db_file, connected, is_request_created, request_id, serving, hit, children>>
  BY DEF InsertRequest, Active, Top, TopAt, At, RequestAdded
<1>2. stack' \in Stacks /\ OthersKept(p) BY <1>1, GotoFacts DEF Labels
<1>3. /\ f \in Files /\ n \in Nat /\ requests' \in [Files -> Seq(Owners)]
      /\ Len(requests'[f]) = n + 1 /\ DOMAIN requests'[f] = 1..n + 1
      /\ requests'[f][n + 1] = Owner(p)
      /\ \A i \in 1..n : requests'[f][i] = requests[f][i]
  BY <1>1, RowAdded
<1>4. DOMAIN requests[f] = 1..n BY <1>3, TableFacts
<1>5. last' \in [Process -> Nat] /\ last'[p] = n + 1
      /\ \A q \in Process \ {p} : last'[q] = last[q]
  BY <1>1, <1>3 DEF TypeOK
<1> HIDE DEF n
<1>6. TypeOK' BY <1>1, <1>2, <1>3, <1>5 DEF TypeOK, Stacks, Frames, Labels, Owners
<1>7. OthersSame(p) BY <1>1, <1>2, <1>5 DEF OthersSame, OthersKept
<1>8. Local(p) /\ 1 \in DOMAIN stack[p] /\ At(p, 1) = "insert"
      /\ RowsOf(p)' = RowsOf(p) \union {<<f, n + 1>>}
  BY <1>1, RowsAdded, StackFacts DEF TopAt, n
<1>9. connected[p] /\ ~TopAt(p, {"id"}) /\ TopAt(p, {"insert", "id"})
  BY <1>1, <1>8 DEF Local, Nesting, TopAt
<1>10. /\ (Nested(p)' <=> Nested(p)) /\ At(p, 1)' = "id"
       /\ \A labels : TopAt(p, labels)' <=> "id" \in labels
       /\ \A k \in DOMAIN stack'[p] : k \in DOMAIN stack[p] /\ (k # 1 => At(p, k)' = At(p, k))
       /\ Nesting(p)'
  BY <1>1, <1>7, <1>9, Moved DEF TopAt
<1>11. Counting(p)'
  <2>1. Counting(p) BY <1>8 DEF Local
  <2> DEFINE old == Cardinality(RowsOf(p)) new == Cardinality(RowsOf(p)')
  <2>2. IsFiniteSet(RowsOf(p)) /\ old <= 1 /\ old \in Nat
    BY <1>8, <2>1, FS_CardinalityType DEF Counting
  <2>3. IsFiniteSet(RowsOf(p)') /\ (new = old \/ new = old + 1)
    <3>1. /\ IsFiniteSet(RowsOf(p) \union {<<f, n + 1>>})
          /\ Cardinality(RowsOf(p) \union {<<f, n + 1>>})
               = IF <<f, n + 1>> \in RowsOf(p) THEN old ELSE old + 1
      BY <2>2, FS_AddElement
    <3> QED BY <1>8, <3>1
  <2>4. ~is_request_created[p] => old = 0
    BY <1>9, <2>1, FS_EmptySet DEF Counting
  <2> HIDE DEF old, new
  <2>5. new <= 2 /\ (~is_request_created[p] => new <= 1) BY <2>2, <2>3, <2>4
  <2>6. "schema" \notin hit[p] => ~is_request_created[p] /\ ~Nested(p)
    BY <1>9, <2>1 DEF Counting
  <2>7. Nested(p) => ~is_request_created[p] BY <1>9, <2>1 DEF Counting
  <2>8. \A k \in DOMAIN stack'[p] : At(p, k)' \in {"instance", "insert"} => new <= 1
    <3> SUFFICES ASSUME NEW k \in DOMAIN stack'[p], At(p, k)' \in {"instance", "insert"}
                 PROVE  Nested(p)
      BY <2>5, <2>7
    <3>1. k # 1 /\ k \in DOMAIN stack[p] /\ At(p, k) # "disable" BY <1>10
    <3> QED BY <1>1, <3>1, Shape
  <2> QED BY <1>1, <1>10, <2>3, <2>5, <2>6, <2>7, <2>8 DEF Counting, new
<1>12. Linking(p)'
  <2>1. OwnId(p, last[p])'
    <3>1. n + 1 \in 1..n + 1 BY <1>3
    <3>2. Owner(p)' = Owner(p) /\ db_file'[p] = f BY <1>1 DEF Owner
    <3> QED BY <1>3, <1>5, <3>1, <3>2 DEF OwnId
  <2>2. \A i : OwnId(p, i) => OwnId(p, i)'
    BY <1>1, <1>3, <1>4 DEF OwnId, Owner
  <2>3. Sound(p)' <=> Sound(p) BY <1>1 DEF Sound
  <2>4. "id" \in {"id"} /\ "id" \notin {"again", "child"} OBVIOUS
  <2> SUFFICES ASSUME enabled[p], Sound(p)
               PROVE  /\ is_request_created[p] => OwnId(p, request_id[p])'
                      /\ OwnId(p, last[p])'
                      /\ \A k \in DOMAIN stack'[p] : At(p, k)' \in {"again", "child"} => is_request_created[p]
    BY <1>1, <1>10, <2>3, <2>4 DEF Linking
  <2>5. /\ is_request_created[p] => OwnId(p, request_id[p])
        /\ \A k \in DOMAIN stack[p] : At(p, k) \in {"again", "child"} => is_request_created[p]
    BY <1>8 DEF Local, Linking
  <2>6. is_request_created[p] => OwnId(p, request_id[p])'
    BY <1>1, <2>2, <2>5 DEF OwnId
  <2> QED BY <1>10, <2>4, <2>1, <2>5, <2>6
<1> QED BY <1>6, <1>7, <1>10, <1>11, <1>12 DEF Preserved, Local

LEMMA WorkStep ==
  ASSUME Stores, NEW p \in Process, Work(p) PROVE Preserved(p)
BY DisableDriverStep, OpenStep, OpenFailsStep, SchemaFailsStep, InsertRequestStep,
   RequestRejectedStep, TakeIdStep, InsertChildStep, ChildRejectedStep DEF Work

-----------------------------------------------------------------------------
(* The invariant is inductive *)

\* Most steps insert no event; those of a request only add to what went wrong in it.
Plain(p) ==
  /\ UNCHANGED <<number, children>> /\ (UNCHANGED requests \/ RequestAdded(p))
  /\ hit[p] \subseteq hit'[p]

StepOf(p) ==
  \/ Call(p) \/ Work(p) \/ Shutdown(p) \/ OnUpdateEmptyPath(p)
  \/ \E f \in Files : OnUpdateDBFile(p, f) \/ OnUpdateBadPath(p, f)

LEMMA StepPreserves ==
  ASSUME Stores, NEW p \in Process, StepOf(p)
  PROVE  Preserved(p) /\ (rinit(p) \/ rinit_Skipped(p) \/ InsertChild(p) \/ Plain(p))
<1>1. Preserved(p)
  BY RinitStep, ProcessEventStep, ProcessStatsStep, WorkStep, RshutdownStep,
     OnUpdateEmptyPathStep, OnUpdateDBFileStep, OnUpdateBadPathStep
     DEF StepOf, Call, Shutdown
<1>2. \A f \in Faults : Fault(p, f) => hit[p] \subseteq hit'[p]
  BY FaultFacts DEF Stores
<1>3. rinit(p) \/ rinit_Skipped(p) \/ InsertChild(p) \/ Plain(p)
  <2> USE <1>2 DEF Plain, tables, serving, locals, Faults
  <2>1. process_event(p) => Plain(p) BY DEF process_event
  <2>2. process_stats(p) => Plain(p) BY DEF process_stats
  <2>3. Shutdown(p) => Plain(p) BY DEF Shutdown, rshutdown, Unhook, EndRequest
  <2>4. OnUpdateEmptyPath(p) => Plain(p) BY DEF OnUpdateEmptyPath
  <2>5. ASSUME NEW f \in Files, OnUpdateDBFile(p, f) \/ OnUpdateBadPath(p, f) PROVE Plain(p)
    BY <2>5 DEF OnUpdateDBFile, OnUpdateBadPath
  <2>6. DisableDriver(p) \/ Open(p) \/ OpenFails(p) \/ SchemaFails(p) => Plain(p)
    BY DEF DisableDriver, Open, OpenFails, SchemaFails
  <2>7. InsertRequest(p) \/ RequestRejected(p) \/ TakeId(p) \/ ChildRejected(p) => Plain(p)
    BY DEF InsertRequest, RequestRejected, TakeId, ChildRejected, RequestAdded
  <2> QED BY <2>1, <2>2, <2>3, <2>4, <2>5, <2>6, <2>7 DEF StepOf, Call, Work
<1> QED BY <1>1, <1>3

LEMMA HistoryRequest ==
  ASSUME Stores, NEW p \in Process, RequestAdded(p), UNCHANGED <<number, children>>
  PROVE  History'
<1> DEFINE g == db_file[p] n == Len(requests[g])
<1>1. /\ g \in Files /\ n \in Nat /\ DOMAIN requests'[g] = 1..n + 1
      /\ requests'[g][n + 1] = Owner(p)
      /\ \A i \in 1..n : requests'[g][i] = requests[g][i]
      /\ \A h \in Files \ {g} : requests'[h] = requests[h]
  BY RowAdded DEF Stores
<1>2. DOMAIN requests[g] = 1..n BY <1>1, TableFacts DEF Stores
<1> HIDE DEF g, n
<1>3. ASSUME NEW f \in Files, NEW i \in DOMAIN requests'[f]
      PROVE  requests'[f][i] = Owner(p) \/ (i \in DOMAIN requests[f] /\ requests'[f][i] = requests[f][i])
  <2>1. CASE f # g BY <1>1, <1>3, <2>1
  <2>2. CASE f = g
    <3>1. i \in 1..n \/ i = n + 1 BY <1>1, <1>3, <2>2
    <3> QED BY <1>1, <1>2, <2>2, <3>1
  <2> QED BY <2>1, <2>2
<1>4. Owner(p)[1] = p /\ Owner(p)[2] = number[p] /\ number[p] \in Nat
  BY DEF Owner, Stores, TypeOK
<1>5. number[p] <= number[p] BY <1>4
<1> QED BY <1>3, <1>4, <1>5 DEF Stores, History

LEMMA ChildAdded ==
  ASSUME Stores, NEW p \in Process, InsertChild(p)
  PROVE  LET f == db_file[p] n == Len(children[f])
             row == [table |-> Top(p).table, request_id |-> request_id[p],
                     owner |-> Owner(p)]
         IN /\ f \in Files /\ n \in Nat /\ DOMAIN children[f] = 1..n
            /\ DOMAIN children'[f] = 1..n + 1 /\ children'[f][n + 1] = row
            /\ \A i \in 1..n : children'[f][i] = children[f][i]
            /\ \A g \in Files \ {f} : children'[g] = children[g]
<1> DEFINE f == db_file[p] n == Len(children[f])
           row == [table |-> Top(p).table, request_id |-> request_id[p], owner |-> Owner(p)]
<1>1. f \in Files /\ children \in [Files -> Seq(Rows)] BY DEF Stores, TypeOK
<1>2. children[f] \in Seq(Rows) /\ n \in Nat /\ DOMAIN children[f] = 1..n
  BY <1>1, TableFacts DEF Stores
<1>3. row \in Rows
  <2>1. 1 \in DOMAIN stack[p] /\ At(p, 1) = "child"
    BY StackFacts DEF InsertChild, Active, Top, At, Stores
  <2>2. stack[p][1].table \in {"event", "stats"} BY <2>1 DEF Stores, Local, Nesting
  <2> QED BY <2>2 DEF Stores, TypeOK, Rows, Top, Owner
<1>4. children' = [children EXCEPT ![f] = Append(children[f], row)] BY DEF InsertChild
<1> HIDE DEF row, f, n
<1>5. children'[f] = Append(children[f], row) /\ \A g \in Files \ {f} : children'[g] = children[g]
  BY <1>1, <1>4
<1>6. /\ Append(children[f], row) \in Seq(Rows) /\ Len(Append(children[f], row)) = Len(children[f]) + 1
      /\ \A i \in 1..Len(children[f]) : Append(children[f], row)[i] = children[f][i]
      /\ Append(children[f], row)[Len(children[f]) + 1] = row
  BY <1>2, <1>3, AppendProperties
<1>7. DOMAIN children'[f] = 1..Len(children[f]) + 1 BY <1>5, <1>6, LenProperties
<1> QED BY <1>1, <1>2, <1>5, <1>6, <1>7 DEF row, f, n

\* A row that is added refers to its request, and is of no request to come.
LEMMA InsertChildKeeps ==
  ASSUME Stores, NEW p \in Process, InsertChild(p) PROVE History' /\ ChildrenOwned'
<1> DEFINE f == db_file[p] n == Len(children[f])
           row == [table |-> Top(p).table, request_id |-> request_id[p], owner |-> Owner(p)]
<1>1. /\ f \in Files /\ n \in Nat /\ DOMAIN children[f] = 1..n
      /\ DOMAIN children'[f] = 1..n + 1 /\ children'[f][n + 1] = row
      /\ \A i \in 1..n : children'[f][i] = children[f][i]
      /\ \A g \in Files \ {f} : children'[g] = children[g]
  BY ChildAdded
<1>2. UNCHANGED <<number, hit, requests>> BY DEF InsertChild, serving
<1>3. row.owner = Owner(p) /\ row.request_id = request_id[p] OBVIOUS
<1> HIDE DEF f, n, row
<1>4. ASSUME NEW g \in Files, NEW i \in DOMAIN children'[g]
      PROVE  \/ i \in DOMAIN children[g] /\ children'[g][i] = children[g][i]
             \/ g = f /\ children'[g][i] = row
  <2>1. CASE g # f BY <1>1, <1>4, <2>1
  <2>2. CASE g = f
    <3>1. i \in 1..n \/ i = n + 1 BY <1>1, <1>4, <2>2
    <3> QED BY <1>1, <2>2, <3>1
  <2> QED BY <2>1, <2>2
<1>5. History'
  <2>1. Owner(p)[1] = p /\ Owner(p)[2] = number[p] /\ number[p] \in Nat
    BY DEF Owner, Stores, TypeOK
  <2>2. number[p] <= number[p] BY <2>1
  <2>3. ASSUME NEW g \in Files, NEW i \in DOMAIN children'[g]
        PROVE  children'[g][i].owner[2] <= number[children'[g][i].owner[1]]
    BY <1>3, <1>4, <2>1, <2>2, <2>3 DEF Stores, History
  <2> QED BY <1>2, <2>3 DEF Stores, History
<1>6. ChildrenOwned'
  <2> SUFFICES ASSUME NEW q \in Process, NEW g \in Files, NEW i \in DOMAIN children'[g],
                      children'[g][i].owner = Owner(q), Sound(q)
               PROVE  Refers(g, children'[g][i])
    BY <1>2 DEF ChildrenOwned, Sound, Refers, Owner
  <2>1. CASE i \in DOMAIN children[g] /\ children'[g][i] = children[g][i]
    BY <2>1, OwnedMeans DEF Stores
  <2>2. CASE g = f /\ children'[g][i] = row
    <3>1. q = p BY <1>3, <2>2 DEF Owner
    <3>2. stack[p] # <<>> /\ 1 \in DOMAIN stack[p] /\ At(p, 1) = "child"
      BY StackFacts DEF InsertChild, Active, Top, At, Stores
    <3>3. enabled[p] /\ Linking(p) BY <3>2 DEF Stores, Local, Nesting
    <3>4. OwnId(p, request_id[p]) BY <3>1, <3>2, <3>3 DEF Linking
    <3> QED BY <1>3, <2>2, <3>1, <3>4 DEF OwnId, Refers, f
  <2> QED BY <1>4, <2>1, <2>2
<1> QED BY <1>5, <1>6

\* No event refers to a request that begins.
LEMMA RinitKeeps ==
  ASSUME Stores, NEW p \in Process, rinit(p) \/ rinit_Skipped(p) PROVE History' /\ ChildrenOwned'
<1>1. /\ UNCHANGED tables /\ number \in [Process -> Nat]
      /\ number' = [number EXCEPT ![p] = number[p] + 1]
      /\ \A q \in Process \ {p} : hit'[q] = hit[q]
  BY RinitFacts DEF Stores, TypeOK
<1>2. number'[p] = number[p] + 1 /\ number[p] \in Nat
      /\ \A q \in Process \ {p} : number'[q] = number[q]
  BY <1>1
<1>3. \A q \in Process : number'[q] \in Nat /\ number'[q] >= number[q]
  BY <1>1, <1>2
<1>4. History' BY <1>1, <1>3, HistoryKept
<1>5. ChildrenOwned'
  <2> SUFFICES ASSUME NEW q \in Process, NEW f \in Files, NEW i \in DOMAIN children[f],
                      children[f][i].owner = Owner(q)', Sound(q)'
               PROVE  Refers(f, children[f][i])
    BY <1>1 DEF ChildrenOwned, Sound, Refers, tables
  <2>1. CASE q = p
    <3> DEFINE o == children[f][i].owner
    <3>1. o[2] <= number[o[1]] BY DEF Stores, History
    <3>2. o[1] = p /\ o[2] = number[p] + 1 BY <1>2, <2>1 DEF Owner
    <3> HIDE DEF o
    <3> QED BY <1>2, <3>1, <3>2
  <2>2. CASE q # p
    <3>1. Owner(q)' = Owner(q) /\ Sound(q) BY <1>1, <1>2, <2>2 DEF Owner, Sound
    <3> QED BY <3>1, OwnedMeans DEF Stores
  <2> QED BY <2>1, <2>2
<1> QED BY <1>4, <1>5

LEMMA StoresStep == ASSUME Stores, NEW p \in Process, StepOf(p) PROVE Stores'
<1>1. Preserved(p) /\ (rinit(p) \/ rinit_Skipped(p) \/ InsertChild(p) \/ Plain(p))
  BY StepPreserves
<1>2. TypeOK' /\ OthersSame(p) /\ Local(p)' BY <1>1 DEF Preserved
<1>3. UNCHANGED requests \/ RequestAdded(p)
  BY <1>1, RinitFacts DEF Plain, InsertChild, tables
<1>4. \A q \in Process : Local(q)' BY <1>2, <1>3, OthersLocal
<1>5. History' /\ ChildrenOwned'
  <2>1. CASE rinit(p) \/ rinit_Skipped(p) BY <2>1, RinitKeeps
  <2>2. CASE InsertChild(p) BY <2>2, InsertChildKeeps
  <2>3. CASE Plain(p)
    <3>1. \A q \in Process : number[q] \in Nat BY DEF Stores, TypeOK
    <3>2. \A q \in Process : number'[q] \in Nat /\ number'[q] >= number[q]
      BY <2>3, <3>1 DEF Plain
    <3>3. History' BY <2>3, <3>2, HistoryKept, HistoryRequest DEF Plain, tables
    <3>4. ChildrenOwned' BY <1>2, <2>3, OwnedKept DEF Plain
    <3> QED BY <3>3, <3>4
  <2> QED BY <1>1, <2>1, <2>2, <2>3
<1> QED BY <1>2, <1>4, <1>5 DEF Stores

LEMMA StoresStutter == ASSUME Stores, UNCHANGED vars PROVE Stores'
<1> USE DEF vars, locals, serving, tables
<1>1. TypeOK' BY DEF Stores, TypeOK, Rows
<1>2. History' BY DEF Stores, History
<1>3. ChildrenOwned' BY DEF Stores, ChildrenOwned, Owner
<1>4. ASSUME NEW p \in Process PROVE Local(p)'
  <2>1. OthersSame(p) /\ Local(p) /\ RowsOf(p)' = RowsOf(p)
    BY RowsKept DEF OthersSame, Stores
  <2>2. Nesting(p)' BY <2>1 DEF Local, Nesting, Nested, TopAt, At
  <2>3. Counting(p)' BY <2>1 DEF Local, Counting, Nested, TopAt, At
  <2>4. Linking(p)' BY <2>1 DEF Local, Linking, Sound, OwnId, Owner, TopAt, At
  <2> QED BY <2>2, <2>3, <2>4 DEF Local
<1> QED BY <1>1, <1>2, <1>3, <1>4 DEF Stores

LEMMA StoresNext == Stores /\ [Next]_vars => Stores'
<1> SUFFICES ASSUME Stores, [Next]_vars PROVE Stores'
  OBVIOUS
<1>1. CASE UNCHANGED vars BY <1>1, StoresStutter
<1>2. ASSUME NEW p \in Process, StepOf(p) PROVE Stores'
  BY <1>2, StoresStep
<1> QED BY <1>1, <1>2 DEF Next, Terminated, StepOf

LEMMA StoresAlways == Spec => []Stores
<1>1. Init => Stores BY StoresInit
<1>2. Stores /\ [Next]_vars => Stores' BY StoresNext
<1> QED BY <1>1, <1>2, PTL DEF Spec

-----------------------------------------------------------------------------
(* What follows from it *)

\* Every variable of every process and every file keeps its type, whatever the
\* store refuses and however the calls are nested.
THEOREM TypesHold == Spec => []TypeOK
<1>1. Stores => TypeOK BY DEF Stores
<1> QED BY <1>1, StoresAlways, PTL

\* insert_request's flag: at most one row of table request for a request, two only
\* when the error about the tables was dispatched inside the first insertion.
THEOREM RequestsInsertedOnce == Spec => []RequestOnceOrTwice
<1>1. Stores => RequestOnceOrTwice
  BY DEF Stores, Local, Counting, RequestOnceOrTwice
<1> QED BY <1>1, StoresAlways, PTL

\* The id that process_event and process_stats write is null or that of the
\* request's own row, whatever the other processes insert in between.  Excepted are
\* requests with a failed open, a change of file, or the flag of the request before
\* (apm off, rinit not called); and those with a rejected row in which the error
\* about the tables came first, or whose connection is older than they are.
THEOREM RowsReferToTheirRequest == Spec => []ChildrenOwned
<1>1. Stores => ChildrenOwned BY DEF Stores
<1> QED BY <1>1, StoresAlways, PTL

\* An error that the driver raises inside itself brings it back at most once.
THEOREM ReentryEnds == Spec => []ReentryBounded
<1>1. ASSUME Stores, NEW p \in Process
      PROVE  Cardinality({k \in DOMAIN stack[p] : stack[p][k].at # "disable"}) <= 2
  <2> DEFINE calls == {k \in DOMAIN stack[p] : stack[p][k].at # "disable"}
  <2>1. calls \subseteq {1, 2}
    <3> SUFFICES ASSUME NEW k \in DOMAIN stack[p], At(p, k) # "disable"
                 PROVE  k \in {1, 2}
      BY DEF At
    <3>1. stack[p] # <<>> BY <1>1, StackFacts DEF Stores
    <3>2. Len(stack[p]) \in 1..3 /\ DOMAIN stack[p] = 1..Len(stack[p])
      BY <1>1, <3>1, Shape
    <3>3. Len(stack[p]) = 3 => At(p, 3) = "disable" BY <1>1 DEF Stores, Local, Nesting
    <3>4. CASE Len(stack[p]) = 3
      <4>1. 1..3 = {1, 2, 3} OBVIOUS
      <4> QED BY <3>2, <3>3, <3>4, <4>1
    <3>5. CASE Len(stack[p]) \in 1..2
      <4> DEFINE n == Len(stack[p])
      <4>1. n \in 1..2 /\ k \in 1..n BY <3>2, <3>5
      <4> HIDE DEF n
      <4> QED BY <4>1
    <3> QED BY <3>2, <3>4, <3>5
  <2>2. IsFiniteSet({1, 2}) /\ Cardinality({1, 2}) = 2
    <3>1. {1, 2} = 1..2 OBVIOUS
    <3>2. IsFiniteSet(1..2) /\ Cardinality(1..2) = 2
      <4>1. 1 \in Int /\ 2 \in Int /\ ~(1 > 2) /\ 2 - 1 + 1 = 2 OBVIOUS
      <4> QED BY <4>1, FS_Interval
    <3> QED BY <3>1, <3>2
  <2>3. Cardinality(calls) <= Cardinality({1, 2}) BY <2>1, <2>2, FS_Subset
  <2> HIDE DEF calls
  <2>4. Cardinality(calls) <= 2 BY <2>2, <2>3
  <2> QED BY <2>4 DEF calls
<1>2. Stores => ReentryBounded BY <1>1 DEF ReentryBounded
<1> QED BY <1>2, StoresAlways, PTL

\* rshutdown and the restored path leave no connection to the next request (NEWS,
\* bug #17512), also after errors, changes of the file and early events.  Excepted
\* are a driver that the script has switched off, and a process in which no request
\* has had apm on: there rshutdown is not called.
THEOREM ConnectionsAreClosed == Spec => []ConnectionsClosed
<1>1. Stores => ConnectionsClosed
  BY DEF Stores, TypeOK, Local, Nesting, ConnectionsClosed
<1> QED BY <1>1, StoresAlways, PTL

-----------------------------------------------------------------------------
(* The length of a call *)

LEMMA RestTypes ==
  /\ \A label \in Labels : Rest(label) \in Nat
  /\ Rest("instance") = 5 /\ Rest("insert") = 4 /\ Rest("id") = 3
  /\ Rest("again") = 2 /\ Rest("child") = 1 /\ Rest("disable") = 1
BY DEF Rest, Labels

LEMMA RestOfTypes ==
  ASSUME TypeOK, NEW p \in Process
  PROVE  /\ \A k \in {1, 2, 3} : RestOf(p, k) \in Nat
         /\ stack[p] # <<>> => RestOf(p, 1) = Rest(At(p, 1))
<1>1. \A k \in DOMAIN stack[p] : stack[p][k].at \in Labels BY StackFacts DEF Frames
<1>2. \A k \in {1, 2, 3} : RestOf(p, k) \in Nat BY <1>1, RestTypes DEF RestOf
<1> QED BY <1>2, StackFacts DEF RestOf, At

LEMMA GotoRest ==
  ASSUME TypeOK, NEW p \in Process, stack[p] # <<>>, NEW label \in Labels, Goto(p, label)
  PROVE  /\ RestOf(p, 1)' = Rest(label)
         /\ RestOf(p, 2)' = RestOf(p, 2) /\ RestOf(p, 3)' = RestOf(p, 3)
<1>1. /\ DOMAIN stack'[p] = DOMAIN stack[p] /\ 1 \in DOMAIN stack[p]
      /\ stack'[p][1] = [table |-> stack[p][1].table, at |-> label]
      /\ \A k \in DOMAIN stack[p] : k # 1 => stack'[p][k] = stack[p][k]
  BY GotoFacts, StackFacts
<1>2. stack'[p][1].at = label BY <1>1
<1> QED BY ONLY <1>1, <1>2 DEF RestOf

LEMMA PopRest ==
  ASSUME Stores, NEW p \in Process, stack[p] # <<>>, Pop(p)
  PROVE  /\ RestOf(p, 1)' = RestOf(p, 2) /\ RestOf(p, 2)' = RestOf(p, 3)
         /\ RestOf(p, 3)' = 0
<1> DEFINE n == Len(stack[p])
<1>1. /\ n \in 1..3 /\ DOMAIN stack[p] = 1..n
      /\ DOMAIN stack'[p] = 1..n - 1
      /\ \A k \in 1..n - 1 : stack'[p][k] = stack[p][k + 1]
  BY PopFacts, Shape DEF Stores
<1> HIDE DEF n
<1>2. /\ 1 \in 1..n - 1 <=> 2 \in 1..n
      /\ 2 \in 1..n - 1 <=> 3 \in 1..n
      /\ 3 \notin 1..n - 1
      /\ 1 + 1 = 2 /\ 2 + 1 = 3
  BY ONLY <1>1
<1>3. /\ 1 \in 1..n - 1 => stack'[p][1] = stack[p][2]
      /\ 2 \in 1..n - 1 => stack'[p][2] = stack[p][3]
  BY ONLY <1>1, <1>2
<1> QED BY ONLY <1>1, <1>2, <1>3 DEF RestOf

\* The error about the tables: the new call on top has a connection.
LEMMA ComplainRest ==
  ASSUME Stores, NEW p \in Process, stack[p] # <<>>, ~connected[p], connected'[p],
         NEW next \in Labels, Complain(p, next)
  PROVE  \/ /\ RestOf(p, 1)' = Rest(next)
            /\ RestOf(p, 2)' = RestOf(p, 2) /\ RestOf(p, 3)' = RestOf(p, 3)
         \/ /\ RestOf(p, 1)' <= 4 /\ RestOf(p, 1)' \in Nat /\ RestOf(p, 2)' = Rest(next)
            /\ RestOf(p, 3)' = RestOf(p, 2) /\ RestOf(p, 3) = 0
<1> DEFINE n == Len(stack[p])
<1>1. ~Nested(p) BY DEF Stores, Local, Nesting
<1>2. n \in 1..2 /\ DOMAIN stack[p] = 1..n BY <1>1, Shape
<1>3. \/ /\ DOMAIN stack'[p] = DOMAIN stack[p]
         /\ stack'[p][1] = [table |-> stack[p][1].table, at |-> next]
         /\ \A k \in DOMAIN stack[p] : k # 1 => stack'[p][k] = stack[p][k]
      \/ /\ DOMAIN stack'[p] = 1..n + 1
         /\ stack'[p][1] = [table |-> "event", at |-> Begin(p)]
         /\ stack'[p][2] = [table |-> stack[p][1].table, at |-> next]
         /\ \A k \in DOMAIN stack[p] : k # 1 => stack'[p][k + 1] = stack[p][k]
  BY ComplainFacts DEF Stores
<1>4. Begin(p) \in {"child", "insert"} BY DEF Begin
<1> HIDE DEF n
<1>5. /\ 1 \in 1..n /\ 3 \notin 1..n /\ 1 \in 1..n + 1 /\ 2 \in 1..n + 1
      /\ (3 \in 1..n + 1 <=> 2 \in 1..n) /\ 2 + 1 = 3
  BY ONLY <1>2
<1>6. CASE /\ DOMAIN stack'[p] = DOMAIN stack[p]
           /\ stack'[p][1] = [table |-> stack[p][1].table, at |-> next]
           /\ \A k \in DOMAIN stack[p] : k # 1 => stack'[p][k] = stack[p][k]
  BY ONLY <1>2, <1>5, <1>6 DEF RestOf
<1>7. CASE /\ DOMAIN stack'[p] = 1..n + 1
           /\ stack'[p][1] = [table |-> "event", at |-> Begin(p)]
           /\ stack'[p][2] = [table |-> stack[p][1].table, at |-> next]
           /\ \A k \in DOMAIN stack[p] : k # 1 => stack'[p][k + 1] = stack[p][k]
  <2>1. RestOf(p, 1)' = Rest(Begin(p)) /\ RestOf(p, 2)' = Rest(next)
    BY ONLY <1>5, <1>7 DEF RestOf
  <2>2. 2 \in 1..n => stack'[p][3] = stack[p][2] BY ONLY <1>2, <1>5, <1>7
  <2>3. RestOf(p, 3)' = RestOf(p, 2) /\ RestOf(p, 3) = 0
    BY ONLY <1>2, <1>5, <1>7, <2>2 DEF RestOf
  <2>4. Rest(Begin(p)) \in Nat /\ Rest(Begin(p)) <= 4 BY <1>4, RestTypes
  <2> QED BY ONLY <2>1, <2>3, <2>4
<1> QED BY <1>3, <1>6, <1>7

\* A step of the call as one of the activations and the connection.
LEMMA WorkMoves ==
  ASSUME Stores, NEW p \in Process, Work(p)
  PROVE  /\ stack[p] # <<>> /\ connected[p] \in BOOLEAN /\ connected'[p] \in BOOLEAN
         /\ connected[p] => connected'[p]
         /\ \/ /\ RestOf(p, 1)' \in Nat /\ RestOf(p, 1)' < RestOf(p, 1)
               /\ RestOf(p, 2)' = RestOf(p, 2) /\ RestOf(p, 3)' = RestOf(p, 3)
            \/ /\ RestOf(p, 1) > 0
               /\ RestOf(p, 1)' = RestOf(p, 2) /\ RestOf(p, 2)' = RestOf(p, 3)
               /\ RestOf(p, 3)' = 0
            \/ /\ RestOf(p, 1)' \in Nat /\ RestOf(p, 1)' <= 4
               /\ RestOf(p, 2)' \in Nat /\ RestOf(p, 2)' < RestOf(p, 1)
               /\ RestOf(p, 3)' = RestOf(p, 2) /\ RestOf(p, 3) = 0
               /\ ~connected[p] /\ connected'[p]
<1>0. TypeOK BY DEF Stores
<1>1. connected \in [Process -> BOOLEAN] BY <1>0 DEF TypeOK
<1>2. \A labels : (\E x \in labels : Active(p, x)) => TopAt(p, labels)
  BY DEF Active, TopAt, Top, At
<1>3. stack[p] # <<>>
  BY DEF Work, DisableDriver, Open, OpenFails, SchemaFails, InsertRequest, RequestRejected,
         TakeId, InsertChild, ChildRejected, AtInstance, Active
<1>4. RestOf(p, 1) = Rest(At(p, 1)) BY <1>0, <1>3, RestOfTypes
<1>5. CASE DisableDriver(p) \/ InsertChild(p) \/ ChildRejected(p)
  <2>1. Pop(p) /\ At(p, 1) \in {"disable", "child"} /\ UNCHANGED connected
    BY <1>5 DEF DisableDriver, InsertChild, ChildRejected, Active, Top, At, locals
  <2> QED BY <1>1, <1>3, <1>4, <2>1, PopRest, RestTypes
<1>6. CASE Open(p)
  <2>1. /\ At(p, 1) \in {"instance", "again"} /\ ~connected[p]
        /\ connected' = [connected EXCEPT ![p] = TRUE] /\ Goto(p, After(At(p, 1)))
    BY <1>6 DEF Open, AtInstance, Active, Top, At
  <2>2. /\ After(At(p, 1)) \in Labels /\ Rest(After(At(p, 1))) \in Nat
        /\ Rest(After(At(p, 1))) < Rest(At(p, 1))
    BY <2>1, RestTypes DEF After, Labels
  <2> QED BY <1>0, <1>1, <1>3, <1>4, <2>1, <2>2, GotoRest
<1>7. CASE OpenFails(p)
  <2>1. /\ At(p, 1) \in {"instance", "again"} /\ UNCHANGED connected
        /\ At(p, 1) = "instance" => Goto(p, "again")
        /\ At(p, 1) # "instance" => Pop(p)
    BY <1>7 DEF OpenFails, AtInstance, Active, Top, At, locals
  <2>2. CASE At(p, 1) = "instance"
    <3>1. "again" \in Labels BY DEF Labels
    <3>2. /\ RestOf(p, 1)' = Rest("again") /\ RestOf(p, 2)' = RestOf(p, 2)
          /\ RestOf(p, 3)' = RestOf(p, 3)
      BY <1>0, <1>3, <2>1, <2>2, <3>1, GotoRest
    <3> QED BY <1>1, <1>3, <1>4, <2>1, <2>2, <3>2, RestTypes
  <2>3. CASE At(p, 1) = "again"
    BY <1>1, <1>3, <1>4, <2>1, <2>3, PopRest, RestTypes
  <2> QED BY <2>1, <2>2, <2>3
<1>8. CASE SchemaFails(p)
  <2>1. /\ At(p, 1) \in {"instance", "again"} /\ ~connected[p]
        /\ connected' = [connected EXCEPT ![p] = TRUE] /\ Complain(p, After(At(p, 1)))
    BY <1>8 DEF SchemaFails, AtInstance, Active, Top, At
  <2>2. /\ After(At(p, 1)) \in Labels /\ Rest(After(At(p, 1))) \in Nat
        /\ Rest(After(At(p, 1))) < Rest(At(p, 1))
    BY <2>1, RestTypes DEF After, Labels
  <2>3. connected'[p] BY <1>1, <2>1
  <2>4. \/ /\ RestOf(p, 1)' = Rest(After(At(p, 1)))
           /\ RestOf(p, 2)' = RestOf(p, 2) /\ RestOf(p, 3)' = RestOf(p, 3)
        \/ /\ RestOf(p, 1)' <= 4 /\ RestOf(p, 1)' \in Nat
           /\ RestOf(p, 2)' = Rest(After(At(p, 1)))
           /\ RestOf(p, 3)' = RestOf(p, 2) /\ RestOf(p, 3) = 0
    BY <1>3, <2>1, <2>2, <2>3, ComplainRest
  <2> QED BY <1>1, <1>3, <1>4, <2>1, <2>2, <2>3, <2>4
<1>9. CASE InsertRequest(p) \/ RequestRejected(p)
  <2>1. At(p, 1) = "insert" /\ Goto(p, "id") /\ UNCHANGED connected
    BY <1>9 DEF InsertRequest, RequestRejected, Active, Top, At, locals
  <2>2. "id" \in Labels BY DEF Labels
  <2>3. /\ RestOf(p, 1)' = Rest("id") /\ RestOf(p, 2)' = RestOf(p, 2)
        /\ RestOf(p, 3)' = RestOf(p, 3)
    BY <1>0, <1>3, <2>1, <2>2, GotoRest
  <2> QED BY <1>1, <1>3, <1>4, <2>1, <2>3, RestTypes
<1>10. CASE TakeId(p)
  <2>1. At(p, 1) = "id" /\ Goto(p, Get(p, "again")) /\ UNCHANGED connected
    BY <1>10 DEF TakeId, Active, Top, At
  <2>2. Get(p, "again") \in {"child", "again"} BY DEF Get, After
  <2>3. /\ Get(p, "again") \in Labels /\ Rest(Get(p, "again")) \in Nat
        /\ Rest(Get(p, "again")) < 3
    BY <2>2, RestTypes DEF Labels
  <2>4. /\ RestOf(p, 1)' = Rest(Get(p, "again")) /\ RestOf(p, 2)' = RestOf(p, 2)
        /\ RestOf(p, 3)' = RestOf(p, 3)
    BY <1>0, <1>3, <2>1, <2>3, GotoRest
  <2> QED BY <1>1, <1>3, <1>4, <2>1, <2>3, <2>4, RestTypes
<1> QED BY <1>5, <1>6, <1>7, <1>8, <1>9, <1>10 DEF Work

LEMMA WorkEnds ==
  ASSUME Stores, NEW p \in Process, Work(p)
  PROVE  StepsLeft(p)' < StepsLeft(p)
<1> DEFINE x == RestOf(p, 1)  y == RestOf(p, 2)  z == RestOf(p, 3)
           u == RestOf(p, 1)' v == RestOf(p, 2)' w == RestOf(p, 3)'
           old == IF connected[p] THEN 0 ELSE 6
           new == IF connected'[p] THEN 0 ELSE 6
<1>1. x \in Nat /\ y \in Nat /\ z \in Nat BY RestOfTypes DEF Stores
<1>2. /\ old \in {0, 6} /\ new \in {0, 6} /\ new <= old
      /\ \/ u \in Nat /\ u < x /\ v = y /\ w = z
         \/ x > 0 /\ u = y /\ v = z /\ w = 0
         \/ /\ u \in Nat /\ u <= 4 /\ v \in Nat /\ v < x /\ w = y /\ z = 0
            /\ old = 6 /\ new = 0
  BY WorkMoves
<1>3. StepsLeft(p) = x + y + z + old /\ StepsLeft(p)' = u + v + w + new BY DEF StepsLeft
<1> HIDE DEF x, y, z, u, v, w, old, new
<1>4. u + v + w + new < x + y + z + old BY ONLY <1>1, <1>2
<1> QED BY ONLY <1>3, <1>4

\* A process inside a call takes no step but those of the call; the others leave it
\* alone.
LEMMA OthersLeaveCalls ==
  ASSUME Stores, [Next]_vars, NEW p \in Process, ~Work(p), stack[p] # <<>>
  PROVE  StepsLeft(p)' = StepsLeft(p)
<1>1. ASSUME stack'[p] = stack[p], connected'[p] = connected[p]
      PROVE  StepsLeft(p)' = StepsLeft(p)
  BY <1>1 DEF StepsLeft, RestOf
<1>2. CASE UNCHANGED vars BY <1>1, <1>2 DEF vars, locals
<1>3. ASSUME NEW q \in Process, StepOf(q) PROVE StepsLeft(p)' = StepsLeft(p)
  <2>1. CASE q # p
    <3>1. OthersSame(q) BY <1>3, StepPreserves DEF Preserved
    <3> QED BY <1>1, <2>1, <3>1 DEF OthersSame
  <2>2. CASE q = p
    <3>1. phase[p] # "closing" /\ stack[p] # <<>> BY DEF Stores, Local, Nesting
    <3>2. ~EndRequest(p) BY <3>1 DEF EndRequest
    <3>3. ~StepOf(p)
      BY <3>2 DEF StepOf, Call, rinit, rinit_Skipped, NextRequest, process_event,
                  process_stats, Shutdown, rshutdown, Unhook,
                  OnUpdateEmptyPath, OnUpdateDBFile, OnUpdateBadPath
    <3> QED BY <1>3, <2>2, <3>3
  <2> QED BY <2>1, <2>2
<1> QED BY <1>2, <1>3 DEF Next, Terminated, StepOf

\* However the store fails and whatever the other processes do, a call of the driver
\* and those inside it take a bounded number of steps: what CallReturns says, less the
\* fairness.
THEOREM CallsTakeBoundedSteps == Spec => CallIsBounded
<1> DEFINE Shorter ==
      \A p \in Process :
        /\ Work(p) => StepsLeft(p)' < StepsLeft(p)
        /\ stack[p] # <<>> => StepsLeft(p)' <= StepsLeft(p)
<1>1. Stores /\ [Next]_vars => [Shorter]_vars
  <2> SUFFICES ASSUME Stores, [Next]_vars, NEW p \in Process
               PROVE  /\ Work(p) => StepsLeft(p)' < StepsLeft(p)
                      /\ stack[p] # <<>> => StepsLeft(p)' <= StepsLeft(p)
    OBVIOUS
  <2>1. Work(p) => StepsLeft(p)' < StepsLeft(p) BY WorkEnds
  <2>2. StepsLeft(p) \in Nat /\ StepsLeft(p)' \in Nat
    <3>1. StepsLeft(p) \in Nat BY RestOfTypes DEF StepsLeft, Stores
    <3>2. TypeOK' BY StoresNext DEF Stores
    <3>3. \A k \in {1, 2, 3} : RestOf(p, k)' \in Nat
      <4>1. stack' \in Stacks BY <3>2 DEF TypeOK, Stacks, Frames, Labels
      <4>2. \A k \in DOMAIN stack'[p] : stack'[p][k].at \in Labels
        <5>1. stack'[p] \in Seq(Frames) BY <4>1 DEF Stacks
        <5>2. \A k \in DOMAIN stack'[p] : stack'[p][k] \in Frames
          BY <5>1, LenProperties, ElementOfSeq
        <5> QED BY ONLY <5>2 DEF Frames
      <4> QED BY <4>2, RestTypes DEF RestOf
    <3> QED BY <3>1, <3>3 DEF StepsLeft
  <2>3. ~Work(p) /\ stack[p] # <<>> => StepsLeft(p)' = StepsLeft(p) BY OthersLeaveCalls
  <2> QED BY <2>1, <2>2, <2>3
<1>2. Stores /\ Stores' /\ [Next]_vars => [Shorter]_vars BY <1>1
<1> QED BY <1>2, StoresAlways, PTL DEF Spec, CallIsBounded

=============================================================================

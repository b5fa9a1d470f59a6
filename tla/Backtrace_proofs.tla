-------------------------- MODULE Backtrace_proofs --------------------------
(***************************************************************************)
(* Theorems of Backtrace, for every heap, every stack, every configured    *)
(* depth and every width of a char: a value is marked exactly while it is  *)
(* being dumped, the lines of the trace end in the trace, every frame of   *)
(* code has its line, and the dump of a call's arguments is complete.      *)
(*                                                                         *)
(* What is visible is defined by the paths and tables of the heap, never   *)
(* by recursion: `Dumped' says what has been shown up to the path that the *)
(* dump is at, and each step moves that path to the next one.              *)
(***************************************************************************)
EXTENDS Backtrace, SequenceTheorems, FiniteSetTheorems, TLAPS

-----------------------------------------------------------------------------
(* The sequences of the walks *)

LEMMA NextOf ==
  ASSUME NEW x \in Hash
  PROVE  [x EXCEPT !.next = @ + 1] \in Hash /\ [x EXCEPT !.next = @ + 1].of = x.of
BY DEF Hash

LEMMA AdvanceOf ==
  ASSUME NEW s \in Seq(Hash), s # <<>>
  PROVE  /\ Advance(s) \in Seq(Hash) /\ Len(Advance(s)) = Len(s) /\ Advance(s) # <<>>
         /\ \A k \in 1..Len(s) : Advance(s)[k].of = s[k].of
<1>1. Len(s) \in Nat \ {0} /\ DOMAIN s = 1..Len(s) /\ s \in [1..Len(s) -> Hash]
  BY LenProperties, EmptySeq
<1> DEFINE e == [s[Len(s)] EXCEPT !.next = @ + 1]
           t == [s EXCEPT ![Len(s)] = e]
<1>2. Advance(s) = t
  BY DEF Advance
<1>3. s[Len(s)] \in Hash BY <1>1
<1>4. e \in Hash /\ e.of = s[Len(s)].of
  BY ONLY <1>3, NextOf DEF e
<1> HIDE DEF e
<1>5. t \in [1..Len(s) -> Hash] BY <1>1, <1>4
<1>6. t \in Seq(Hash) /\ Len(t) = Len(s)
  BY <1>1, <1>5
<1>7. \A k \in 1..Len(s) : t[k].of = s[k].of
  BY <1>1, <1>4, Zenon
<1> HIDE DEF t
<1> QED BY <1>1, <1>2, <1>6, <1>7, EmptySeq

LEMMA FrontOf ==
  ASSUME NEW s \in Seq(Hash), Len(s) >= 2
  PROVE  /\ Front(s) \in Seq(Hash) /\ Len(Front(s)) = Len(s) - 1 /\ Front(s) # <<>>
         /\ \A k \in 1..(Len(s) - 1) : Front(s)[k] = s[k]
<1>1. Len(s) \in Nat BY LenProperties
<1>2. Front(s) = SubSeq(s, 1, Len(s) - 1) BY DEF Front
<1>3. \A k \in 1..(Len(s) - 1) : s[k] \in Hash BY <1>1, ElementOfSeq
<1> DEFINE n == Len(s) - 1
           t == SubSeq(s, 1, n)
<1>4. n \in Int /\ n >= 1 BY <1>1
<1>5. /\ t \in Seq(Hash) /\ Len(t) = IF 1 <= n THEN n - 1 + 1 ELSE 0
      /\ \A k \in 1..(n - 1 + 1) : t[k] = s[1 + k - 1]
  <2> HIDE DEF n
  <2>1. \A k \in 1..n : s[k] \in Hash BY <1>3 DEF n
  <2> QED BY <1>4, <2>1, SubSeqProperties
<1>6. Len(t) = n /\ \A k \in 1..n : t[k] = s[k]
  <2> HIDE DEF n, t
  <2>1. \A k \in 1..n : k \in 1..(n - 1 + 1) /\ 1 + k - 1 = k BY <1>4
  <2> QED BY <1>4, <1>5, <2>1
<1>7. t # <<>>
  <2> HIDE DEF n, t
  <2> QED BY <1>4, <1>6, EmptySeq
<1> QED BY <1>2, <1>5, <1>6, <1>7

\* What Update makes of the walks.
LEMMA Updated ==
  ASSUME walks \in Seq(Walk), walks # <<>>, NEW walk \in Walk, Update(walk)
  PROVE  /\ walks' \in Seq(Walk) /\ Len(walks') = Len(walks) /\ walks' # <<>>
         /\ DOMAIN walks' = DOMAIN walks /\ 1 \in DOMAIN walks
         /\ walks'[1] = walk /\ \A i \in DOMAIN walks \ {1} : walks'[i] = walks[i]
<1>1. Len(walks) \in Nat \ {0} /\ DOMAIN walks = 1..Len(walks)
  BY LenProperties, EmptySeq
<1>2. /\ Tail(walks) \in Seq(Walk) /\ Len(Tail(walks)) = Len(walks) - 1
      /\ \A i \in 1..Len(Tail(walks)) : Tail(walks)[i] = walks[i + 1]
  BY HeadTailProperties
<1>3. <<walk>> \in Seq(Walk) /\ Len(<<walk>>) = 1 /\ <<walk>>[1] = walk
  OBVIOUS
<1>4. walks' = <<walk>> \o Tail(walks) BY DEF Update
<1>5. /\ walks' \in Seq(Walk) /\ Len(walks') = 1 + Len(Tail(walks))
      /\ \A i \in 1..Len(walks') :
           walks'[i] = IF i <= 1 THEN <<walk>>[i] ELSE Tail(walks)[i - 1]
  BY <1>2, <1>3, <1>4, ConcatProperties
<1>6. Len(walks') = Len(walks) BY <1>1, <1>2, <1>5
<1>7. DOMAIN walks' = DOMAIN walks /\ walks' # <<>>
  BY <1>1, <1>5, <1>6, LenProperties, EmptySeq
<1>8. ASSUME NEW i \in 2..Len(walks) PROVE walks'[i] = walks[i]
  <2>1. i - 1 \in 1..Len(Tail(walks)) /\ (i - 1) + 1 = i /\ ~(i <= 1) /\ i \in 1..Len(walks')
    BY <1>1, <1>2, <1>6
  <2> QED BY <1>2, <1>5, <2>1
<1>9. 1 \in 1..Len(walks) /\ 1 \in 1..Len(walks') /\ 1..Len(walks) \ {1} = 2..Len(walks)
  BY <1>1, <1>6
<1> QED BY <1>1, <1>3, <1>5, <1>6, <1>7, <1>8, <1>9

-----------------------------------------------------------------------------
(* Types *)

\* The dump of a call's arguments is what is open while they are being written,
\* and behind the arguments come containers.
Shaped(w) ==
  /\ w.at = "args" <=> w.hashes # <<>>
  /\ \A k \in 2..Len(w.hashes) : w.hashes[k].of \in Containers
Typed == TypeOK /\ \A i \in DOMAIN walks : Shaped(walks[i])

LEMMA TypesInit == Init => Typed
<1> SUFFICES ASSUME Init PROVE Typed
  OBVIOUS
<1>1. walks = <<>> /\ <<>> \in Seq(Walk) /\ DOMAIN <<>> = {} BY DEF Init
<1>2. guard \in [Containers -> 0..1] BY DEF Init
<1>3. overflow \in BOOLEAN BY Zenon DEF Init
<1> QED BY <1>1, <1>2, <1>3 DEF Init, Typed, TypeOK

\* The innermost walk.
LEMMA Outermost ==
  ASSUME Typed, walks # <<>>
  PROVE  /\ W \in Walk /\ Shaped(W) /\ 1 \in DOMAIN walks
         /\ W.ptr \in Nat \ {0} /\ W.call \in Nat \ {0} /\ W.at \in {"frame", "args", "site"}
         /\ Hashes \in Seq(Hash) /\ W.shown \in Seq(Seq(Nat)) /\ W.lines \in Seq(Line)
<1>1. walks \in Seq(Walk) /\ 1 \in DOMAIN walks
  BY LenProperties, EmptySeq DEF Typed, TypeOK
<1>2. W \in Walk BY <1>1, LenProperties, ElementOfSeq DEF W
<1> QED BY <1>1, <1>2 DEF Typed, Walk, Hashes, W

\* While arguments are dumped there is an innermost hash, of a table of the heap.
LEMMA InnermostHash ==
  ASSUME Typed, Dumping
  PROVE  /\ walks # <<>> /\ Hashes # <<>> /\ Len(Hashes) \in Nat \ {0}
         /\ Innermost \in Hash /\ Innermost.of \in Tables /\ Innermost.next \in Nat \ {0}
         /\ Innermost.depth \in Int
         /\ ~Exhausted => Value \in Containers \union {Leaf}
<1>1. walks # <<>> /\ W.at = "args" BY DEF Dumping, Walking
<1>2. Hashes # <<>> /\ Hashes \in Seq(Hash) BY <1>1, Outermost DEF Shaped, Hashes
<1>3. Len(Hashes) \in Nat \ {0} BY <1>2, LenProperties, EmptySeq
<1>4. Innermost \in Hash BY <1>2, <1>3, ElementOfSeq DEF Innermost
<1>5. Innermost.of \in Tables /\ Innermost.next \in Nat \ {0} /\ Innermost.depth \in Int
  BY <1>4 DEF Hash
<1>6. heap \in [Tables -> Seq(Containers \union {Leaf})]
  BY BacktraceAssumption DEF Typed, TypeOK
<1>7. Elements \in Seq(Containers \union {Leaf}) BY <1>5, <1>6 DEF Elements
<1>8. ASSUME ~Exhausted PROVE Value \in Containers \union {Leaf}
  <2>1. Len(Elements) \in Nat BY <1>7, LenProperties
  <2>2. Innermost.next \in 1..Len(Elements) BY <1>5, <1>8, <2>1 DEF Exhausted
  <2> QED BY <1>7, <2>2, ElementOfSeq DEF Value
<1> QED BY <1>1, <1>2, <1>3, <1>4, <1>5, <1>8


\* A walk goes on.
LEMMA WalkGoesOn ==
  ASSUME Typed, walks # <<>>, NEW walk \in Walk, Shaped(walk), Update(walk)
  PROVE  walks' \in Seq(Walk) /\ \A i \in DOMAIN walks' : Shaped(walks'[i])
<1>1. walks \in Seq(Walk) BY DEF Typed, TypeOK
<1>2. \A i \in DOMAIN walks : Shaped(walks[i]) BY DEF Typed
<1> QED BY <1>1, <1>2, Updated

\* What the steps within a dump make of the innermost walk.
LEMMA DumpSteps ==
  ASSUME Typed
  PROVE  /\ BeginFrame => walks # <<>> /\ \E walk \in Walk :
              Update(walk) /\ Shaped(walk) /\ Len(walk.hashes) <= 1
                /\ Hashes = <<>> /\ walk.ptr = W.ptr
         /\ EndLine => walks # <<>> /\ \E walk \in Walk :
              Update(walk) /\ Shaped(walk) /\ walk.hashes = <<>> /\ Hashes = <<>>
         /\ EndArguments => walks # <<>> /\ \E walk \in Walk :
              Update(walk) /\ Shaped(walk) /\ walk.hashes = <<>> /\ Len(Hashes) = 1
         /\ CutArgument \/ ShowLeaf \/ Recursion => walks # <<>> /\ \E walk \in Walk :
              Update(walk) /\ Shaped(walk) /\ walk.hashes = Advance(Hashes)
         /\ LeaveHash => walks # <<>> /\ \E walk \in Walk :
              Update(walk) /\ Shaped(walk) /\ walk.hashes = Advance(Front(Hashes))
                /\ Len(Hashes) >= 2
         /\ EnterHash => walks # <<>> /\ \E walk \in Walk, h \in Hash :
              Update(walk) /\ Shaped(walk) /\ walk.hashes = Append(Hashes, h)
                /\ h.of = Value /\ Value \in Containers
<1>0. Typed OBVIOUS
<1>1. ASSUME BeginFrame
      PROVE  walks # <<>> /\ \E walk \in Walk :
               Update(walk) /\ Shaped(walk) /\ Len(walk.hashes) <= 1
                 /\ Hashes = <<>> /\ walk.ptr = W.ptr
  <2> DEFINE root == [of |-> Arguments, next |-> 1, depth |-> 0]
             w1 == [W EXCEPT !.at = "site", !.shown = <<>>]
             w2 == [W EXCEPT !.at = "args", !.hashes = <<root>>, !.shown = <<>>]
  <2>1. walks # <<>> /\ W.at = "frame" /\ (Update(w1) \/ Update(w2))
    BY <1>1, Zenon DEF BeginFrame, Walking
  <2>2. /\ W \in Walk /\ Shaped(W) /\ Hashes = <<>>
    BY <1>0, <2>1, Outermost DEF Shaped, Hashes
  <2>3. root \in Hash BY DEF Hash, Tables
  <2>4. /\ <<>> \in Seq(Seq(Nat)) /\ <<root>> \in Seq(Hash) /\ Len(<<root>>) = 1
        /\ <<root>> # <<>> /\ Len(<<>>) = 0
    BY <2>3
  <2>5. /\ w1 \in Walk /\ w1.at = "site" /\ w1.hashes = <<>> /\ w1.ptr = W.ptr
        /\ w2 \in Walk /\ w2.at = "args" /\ w2.hashes = <<root>> /\ w2.ptr = W.ptr
    <3> HIDE DEF root
    <3> QED BY <2>2, <2>4 DEF Walk, Hashes
  <2>6. Shaped(w1) /\ Shaped(w2)
    <3>1. 2..0 = {} /\ 2..1 = {} OBVIOUS
    <3> HIDE DEF root, w1, w2
    <3> QED BY <2>4, <2>5, <3>1 DEF Shaped
  <2> HIDE DEF root, w1, w2
  <2>7. Len(w1.hashes) <= 1 /\ Len(w2.hashes) <= 1 BY <2>4, <2>5
  <2> QED BY <2>1, <2>2, <2>5, <2>6, <2>7
<1>2. ASSUME EndLine
      PROVE  walks # <<>> /\ \E walk \in Walk :
               Update(walk) /\ Shaped(walk) /\ walk.hashes = <<>> /\ Hashes = <<>>
  <2> DEFINE s == Skip(W.ptr)
             line == [call |-> W.call, site |-> IF User(s) THEN s ELSE 0]
             w == [W EXCEPT !.at = "frame", !.lines = Append(@, line),
                            !.ptr = NextPtr(@), !.call = s]
  <2>1. walks # <<>> /\ W.at = "site" /\ Update(w)
    BY <1>2, Zenon DEF EndLine, Walking
  <2>2. /\ W \in Walk /\ Shaped(W) /\ Hashes = <<>>
    BY <1>0, <2>1, Outermost DEF Shaped, Hashes
  <2>3. W.ptr \in Nat \ {0} /\ W.call \in Nat \ {0} /\ W.lines \in Seq(Line)
    BY <2>2 DEF Walk
  <2>4. s \in Nat \ {0} /\ NextPtr(W.ptr) \in Nat \ {0}
    BY <2>3 DEF Skip, NextPtr
  <2>5. line \in Line BY <2>3, <2>4 DEF Line
  <2>6. Append(W.lines, line) \in Seq(Line) BY <2>3, <2>5, AppendProperties
  <2>7. w \in Walk /\ w.at = "frame" /\ w.hashes = <<>>
    <3> HIDE DEF s, line
    <3> QED BY <2>2, <2>4, <2>6 DEF Walk, Hashes
  <2>8. Shaped(w)
    <3>1. 2..Len(<<>>) = {} OBVIOUS
    <3> HIDE DEF w
    <3> QED BY <2>7, <3>1 DEF Shaped
  <2> HIDE DEF w
  <2> QED BY <2>1, <2>2, <2>7, <2>8
<1>3. ASSUME EndArguments
      PROVE  walks # <<>> /\ \E walk \in Walk :
               Update(walk) /\ Shaped(walk) /\ walk.hashes = <<>> /\ Len(Hashes) = 1
  <2> DEFINE w == [W EXCEPT !.at = "site", !.hashes = <<>>]
  <2>1. walks # <<>> /\ W.at = "args" /\ Update(w) /\ Len(Hashes) = 1
    BY <1>3, Zenon DEF EndArguments, Dumping, Walking, InArguments
  <2>2. W \in Walk BY <1>0, <2>1, Outermost
  <2>3. w \in Walk /\ w.at = "site" /\ w.hashes = <<>>
    <3>1. <<>> \in Seq(Hash) OBVIOUS
    <3> QED BY <2>2, <3>1 DEF Walk
  <2>4. Shaped(w)
    <3>1. 2..Len(<<>>) = {} OBVIOUS
    <3> HIDE DEF w
    <3> QED BY <2>3, <3>1 DEF Shaped
  <2> HIDE DEF w
  <2> QED BY <2>1, <2>3, <2>4
\* Where the dump has got to.
<1>4. ASSUME Dumping PROVE Path \in Seq(Nat)
  <2>1. Hashes \in Seq(Hash) /\ Len(Hashes) \in Nat /\ Hashes \in [1..Len(Hashes) -> Hash]
    BY <1>0, <1>4, Outermost, LenProperties DEF Dumping, Walking
  <2>2. \A k \in 1..Len(Hashes) : Hashes[k].next \in Nat BY <2>1 DEF Hash
  <2> QED BY <2>1, <2>2 DEF Path
<1>5. ASSUME Dumping, NEW hs \in Seq(Hash), hs # <<>>,
             \A k \in 2..Len(hs) : hs[k].of \in Containers,
             NEW walk, walk \in {[W EXCEPT !.hashes = hs],
                                 [W EXCEPT !.hashes = hs, !.shown = Append(@, Path)]}
      PROVE  walk \in Walk /\ Shaped(walk) /\ walk.hashes = hs
  <2>1. walks # <<>> /\ W.at = "args" BY <1>5 DEF Dumping, Walking
  <2>2. W \in Walk BY <1>0, <2>1, Outermost
  <2>3. Append(W.shown, Path) \in Seq(Seq(Nat))
    <3>1. W.shown \in Seq(Seq(Nat)) BY <2>2 DEF Walk
    <3> QED BY <1>4, <1>5, <3>1, AppendProperties
  <2>4. walk \in Walk /\ walk.at = "args" /\ walk.hashes = hs
    <3>1. CASE walk = [W EXCEPT !.hashes = hs]
      BY <1>5, <2>1, <2>2, <3>1 DEF Walk
    <3>2. CASE walk = [W EXCEPT !.hashes = hs, !.shown = Append(@, Path)]
      BY <1>5, <2>1, <2>2, <2>3, <3>2 DEF Walk
    <3> QED BY <1>5, <3>1, <3>2
  <2> QED BY <1>5, <2>4 DEF Shaped
<1>6. ASSUME Dumping
      PROVE  /\ Hashes \in Seq(Hash) /\ Hashes # <<>> /\ Len(Hashes) \in Nat \ {0}
             /\ \A k \in 2..Len(Hashes) : Hashes[k].of \in Containers
  BY <1>0, <1>6, Outermost, InnermostHash DEF Shaped, Dumping, Walking, Hashes
<1>7. ASSUME CutArgument \/ ShowLeaf \/ Recursion
      PROVE  walks # <<>> /\ \E walk \in Walk :
               Update(walk) /\ Shaped(walk) /\ walk.hashes = Advance(Hashes)
  <2> DEFINE w1 == [W EXCEPT !.hashes = Advance(Hashes)]
             w2 == [W EXCEPT !.hashes = Advance(Hashes), !.shown = Append(@, Path)]
  <2>1. Dumping /\ (Update(w1) \/ Update(w2))
    BY <1>7 DEF CutArgument, ShowLeaf, Recursion, Showing, Hashes
  <2>2. walks # <<>> BY <2>1 DEF Dumping, Walking
  <2>3. /\ Advance(Hashes) \in Seq(Hash) /\ Advance(Hashes) # <<>>
        /\ \A k \in 2..Len(Advance(Hashes)) : Advance(Hashes)[k].of \in Containers
    <3>1. \A k \in 2..Len(Hashes) : k \in 1..Len(Hashes) BY <1>6, <2>1
    <3> QED BY <1>6, <2>1, <3>1, AdvanceOf
  <2>4. /\ w1 \in Walk /\ Shaped(w1) /\ w1.hashes = Advance(Hashes)
        /\ w2 \in Walk /\ Shaped(w2) /\ w2.hashes = Advance(Hashes)
    BY <1>5, <2>1, <2>3, Zenon
  <2> HIDE DEF w1, w2
  <2> QED BY <2>1, <2>2, <2>4
<1>8. ASSUME LeaveHash
      PROVE  walks # <<>> /\ \E walk \in Walk :
               Update(walk) /\ Shaped(walk) /\ walk.hashes = Advance(Front(Hashes))
                 /\ Len(Hashes) >= 2
  <2> DEFINE hs == Advance(Front(Hashes))
             w == [W EXCEPT !.hashes = hs]
  <2>1. Dumping /\ ~InArguments /\ Update(w) BY <1>8 DEF LeaveHash, Hashes
  <2>2. walks # <<>> BY <2>1 DEF Dumping, Walking
  <2>3. Len(Hashes) >= 2
    <3>1. Len(Hashes) \in Nat \ {0} BY <1>6, <2>1
    <3>2. Len(Hashes) # 1 BY <2>1 DEF InArguments
    <3>3. \A n \in Nat \ {0} : n # 1 => n >= 2 OBVIOUS
    <3> QED BY <3>1, <3>2, <3>3, Zenon
  <2>4. /\ Front(Hashes) \in Seq(Hash) /\ Len(Front(Hashes)) = Len(Hashes) - 1
        /\ Front(Hashes) # <<>> /\ \A k \in 1..(Len(Hashes) - 1) : Front(Hashes)[k] = Hashes[k]
    BY <1>6, <2>1, <2>3, FrontOf
  <2>5. /\ hs \in Seq(Hash) /\ hs # <<>> /\ Len(hs) = Len(Hashes) - 1
        /\ \A k \in 1..Len(Hashes) - 1 : hs[k].of = Hashes[k].of
    BY <2>4, AdvanceOf
  <2>6. \A k \in 2..Len(hs) : hs[k].of \in Containers
    <3> HIDE DEF hs
    <3>1. \A k \in 2..Len(hs) : k \in 2..Len(Hashes) /\ k \in 1..Len(Hashes) - 1
      BY <1>6, <2>1, <2>5
    <3> QED BY <1>6, <2>1, <2>5, <3>1
  <2>7. w \in Walk /\ Shaped(w) /\ w.hashes = hs
    <3> HIDE DEF hs
    <3> QED BY <1>5, <2>1, <2>5, <2>6, Zenon
  <2> HIDE DEF w
  <2> QED BY <2>1, <2>2, <2>3, <2>7
<1>9. ASSUME EnterHash
      PROVE  walks # <<>> /\ \E walk \in Walk, h \in Hash :
               Update(walk) /\ Shaped(walk) /\ walk.hashes = Append(Hashes, h)
                 /\ h.of = Value /\ Value \in Containers
  <2> DEFINE h == [of |-> Value, next |-> 1, depth |-> Deeper(Innermost.depth)]
             hs == Append(Hashes, h)
             w == [W EXCEPT !.hashes = hs, !.shown = Append(@, Path)]
  <2>1. Dumping /\ ~Exhausted /\ Value # Leaf /\ Update(w)
    BY <1>9 DEF EnterHash, Showing, Hashes
  <2>2. walks # <<>> BY <2>1 DEF Dumping, Walking
  <2>3. Value \in Containers /\ Innermost.depth \in Int BY <1>0, <2>1, InnermostHash
  <2>4. h \in Hash
    <3>1. Deeper(Innermost.depth) \in Int BY <2>3, BacktraceAssumption DEF Deeper
    <3>2. Value \in Tables BY <2>3 DEF Tables
    <3> QED BY <3>1, <3>2 DEF Hash
  <2>5. h.of = Value OBVIOUS
  <2> HIDE DEF h
  <2>6. /\ hs \in Seq(Hash) /\ Len(hs) = Len(Hashes) + 1 /\ hs[Len(Hashes) + 1] = h
        /\ \A k \in 1..Len(Hashes) : hs[k] = Hashes[k]
    BY <1>6, <2>1, <2>4, AppendProperties
  <2>7. hs # <<>> /\ \A k \in 2..Len(hs) : hs[k].of \in Containers
    <3> HIDE DEF hs
    <3>1. \A k \in 2..Len(hs) : k = Len(Hashes) + 1 \/ k \in 2..Len(Hashes)
      BY <1>6, <2>1, <2>6
    <3>2. \A k \in 2..Len(Hashes) : k \in 1..Len(Hashes) BY <1>6, <2>1
    <3>3. hs # <<>> BY <1>6, <2>1, <2>6, EmptySeq
    <3> QED BY <1>6, <2>1, <2>3, <2>5, <2>6, <3>1, <3>2, <3>3
  <2>8. w \in Walk /\ Shaped(w) /\ w.hashes = hs
    <3> HIDE DEF hs
    <3> QED BY <1>5, <2>1, <2>6, <2>7, Zenon
  <2> HIDE DEF w
  <2> QED BY <2>1, <2>2, <2>3, <2>4, <2>5, <2>8
<1> HIDE DEF Typed
<1> QED BY <1>1, <1>2, <1>3, <1>7, <1>8, <1>9


\* A walk begins, at the event or at the fatal error within one.
LEMMA BegunWalk ==
  ASSUME Typed, OutOfMemory \/ process_event
  PROVE  /\ walks' \in Seq(Walk) /\ walks' # <<>> /\ walks'[1] = NewWalk
         /\ Len(walks') = Len(walks) + 1 /\ NewWalk \in Walk /\ Shaped(NewWalk)
         /\ \A i \in DOMAIN walks' \ {1} : i - 1 \in DOMAIN walks /\ walks'[i] = walks[i - 1]
<1>1. walks \in Seq(Walk) BY DEF Typed, TypeOK
<1>2. Len(walks) \in Nat /\ DOMAIN walks = 1..Len(walks) BY <1>1, LenProperties
<1>3. NewWalk \in Walk
  <2>1. <<>> \in Seq(Hash) /\ <<>> \in Seq(Seq(Nat)) /\ <<>> \in Seq(Line) OBVIOUS
  <2> QED BY <2>1 DEF NewWalk, Walk
<1>4. Shaped(NewWalk)
  <2>1. 2..Len(<<>>) = {} OBVIOUS
  <2>2. NewWalk.hashes = <<>> /\ NewWalk.at = "frame" BY DEF NewWalk
  <2> QED BY <2>1, <2>2 DEF Shaped
<1> HIDE DEF NewWalk
<1>5. walks' = <<NewWalk>> \o walks
  <2>1. CASE OutOfMemory BY <2>1 DEF OutOfMemory
  <2>2. CASE process_event BY <1>1, <2>2, <1>3, ConcatEmptySeq DEF process_event
  <2> QED BY <2>1, <2>2
<1>6. <<NewWalk>> \in Seq(Walk) /\ Len(<<NewWalk>>) = 1 /\ <<NewWalk>>[1] = NewWalk
  BY <1>3
<1>7. /\ walks' \in Seq(Walk) /\ Len(walks') = 1 + Len(walks)
      /\ \A i \in 1..1 + Len(walks) : walks'[i] = IF i <= 1 THEN <<NewWalk>>[i] ELSE walks[i - 1]
  BY <1>1, <1>5, <1>6, ConcatProperties
<1>8. DOMAIN walks' = 1..Len(walks) + 1 /\ walks' # <<>>
  BY <1>2, <1>7, LenProperties, EmptySeq
<1>9. walks'[1] = NewWalk BY <1>2, <1>6, <1>7
<1>10. ASSUME NEW i \in DOMAIN walks' \ {1} PROVE i - 1 \in DOMAIN walks /\ walks'[i] = walks[i - 1]
  <2>1. i \in 1..1 + Len(walks) /\ ~(i <= 1) /\ i - 1 \in 1..Len(walks) BY <1>2, <1>8
  <2> QED BY <1>2, <1>7, <2>1
<1> QED BY <1>2, <1>3, <1>4, <1>7, <1>8, <1>9, <1>10

-----------------------------------------------------------------------------
(* The marks *)

\* No value is being dumped twice, in one trace or in two, and what a long jump left
\* marked is not being dumped: without this the mark that LeaveHash takes off might
\* be another dump's.
Distinct(w) == \A k, l \in 2..Len(w.hashes) : w.hashes[k].of = w.hashes[l].of => k = l
Marks ==
  /\ GuardsHeld
  /\ \A i \in DOMAIN walks : /\ Distinct(walks[i])
                             /\ \A c \in Active(walks[i]) : c \notin leaked
  /\ \A i, j \in DOMAIN walks :
       i # j => \A c \in Active(walks[i]) : c \notin Active(walks[j])

\* A hash that is left is marked.
LEMMA LeftIsMarked ==
  ASSUME Typed, Marks, LeaveHash
  PROVE  Innermost.of \in Containers /\ Innermost.of \in Active(W) /\ guard[Innermost.of] = 1
<1>1. walks # <<>> /\ Len(Hashes) >= 2 /\ Dumping
  BY DumpSteps DEF LeaveHash
<1>2. Hashes \in Seq(Hash) /\ Shaped(W) /\ 1 \in DOMAIN walks BY <1>1, Outermost
<1>3. Len(Hashes) \in 2..Len(Hashes)
  <2>1. Len(Hashes) \in Nat BY <1>2, LenProperties
  <2> QED BY <1>1, <2>1
<1>4. Innermost.of \in Containers /\ Innermost.of \in Active(W)
  BY <1>2, <1>3 DEF Shaped, Active, Innermost, Hashes
<1>5. Innermost.of \in Active(walks[1]) BY <1>4 DEF W
<1> QED BY <1>2, <1>4, <1>5 DEF Marks, GuardsHeld

LEMMA TypesNext == Typed /\ Marks /\ [Next]_vars => Typed'
<1> SUFFICES ASSUME Typed, Marks, [Next]_vars PROVE Typed'
  OBVIOUS
<1>0. /\ phase \in {"script", "shutdown"} /\ heap \in Heaps /\ frames \in Stacks
      /\ dump_max_depth \in MaxDepths /\ guard \in [Containers -> 0..1]
      /\ leaked \subseteq Containers /\ overflow \in BOOLEAN /\ page \in Nat /\ events \in Nat
  BY DEF Typed, TypeOK
\* A step within a walk.
<1>1. ASSUME walks # <<>>, NEW walk \in Walk, Shaped(walk), Update(walk),
             guard' \in [Containers -> 0..1], page' \in Nat,
             UNCHANGED <<phase, heap, frames, dump_max_depth, overflow, events, leaked>>
      PROVE  Typed'
  BY <1>0, <1>1, WalkGoesOn DEF Typed, TypeOK
<1>2. CASE process_event \/ OutOfMemory
  <2>1. walks' \in Seq(Walk) /\ \A i \in DOMAIN walks' : Shaped(walks'[i])
    BY <1>2, BegunWalk DEF Typed
  <2>2. overflow' \in BOOLEAN
    <3>1. overflow' = overflow \/ overflow' = TRUE
      BY <1>2, Zenon DEF process_event, OutOfMemory
    <3> QED BY <1>0, <3>1
  <2>3. page' \in Nat /\ events' \in Nat
    <3>1. page' \in {page, 0} /\ events' \in {events, events + 1}
      BY <1>2, Zenon DEF process_event, OutOfMemory
    <3> QED BY <1>0, <3>1
  <2>4. UNCHANGED <<phase, heap, frames, dump_max_depth, guard, leaked>>
    BY <1>2, Zenon DEF process_event, OutOfMemory
  <2> QED BY <1>0, <2>1, <2>2, <2>3, <2>4 DEF Typed, TypeOK
<1>3. CASE BeginFrame
  <2>1. /\ guard' \in [Containers -> 0..1] /\ page' \in Nat
        /\ UNCHANGED <<phase, heap, frames, dump_max_depth, overflow, events, leaked>>
    BY <1>0, <1>3 DEF BeginFrame
  <2> QED BY <1>1, <1>3, <2>1, DumpSteps
<1>4. CASE EndLine
  <2>1. /\ guard' \in [Containers -> 0..1] /\ page' \in Nat
        /\ UNCHANGED <<phase, heap, frames, dump_max_depth, overflow, events, leaked>>
    BY <1>0, <1>4 DEF EndLine
  <2> QED BY <1>1, <1>4, <2>1, DumpSteps
<1>5. CASE EndArguments
  <2>1. /\ guard' \in [Containers -> 0..1] /\ page' \in Nat
        /\ UNCHANGED <<phase, heap, frames, dump_max_depth, overflow, events, leaked>>
    BY <1>0, <1>5 DEF EndArguments
  <2> QED BY <1>1, <1>5, <2>1, DumpSteps
<1>6. CASE CutArgument \/ ShowLeaf \/ Recursion
  <2>1. /\ guard' \in [Containers -> 0..1] /\ page' \in Nat
        /\ UNCHANGED <<phase, heap, frames, dump_max_depth, overflow, events, leaked>>
    BY <1>0, <1>6 DEF CutArgument, ShowLeaf, Recursion
  <2> QED BY <1>1, <1>6, <2>1, DumpSteps
<1>7. CASE LeaveHash
  <2>1. guard[Innermost.of] = 1 /\ guard' = [guard EXCEPT ![Innermost.of] = @ - 1]
    BY <1>7, LeftIsMarked DEF LeaveHash
  <2>2. guard' = [guard EXCEPT ![Innermost.of] = 0] BY <2>1
  <2>3. guard' \in [Containers -> 0..1]
    <3>1. 0 \in 0..1 OBVIOUS
    <3> QED BY <1>0, <2>2, <3>1, Zenon
  <2>4. /\ page' \in Nat
        /\ UNCHANGED <<phase, heap, frames, dump_max_depth, overflow, events, leaked>>
    BY <1>0, <1>7 DEF LeaveHash
  <2> QED BY <1>1, <1>7, <2>3, <2>4, DumpSteps
<1>8. CASE EnterHash
  <2>1. guard' \in [Containers -> 0..1]
    <3>1. 1 \in 0..1 /\ guard' = [guard EXCEPT ![Value] = 1] BY <1>8 DEF EnterHash
    <3> QED BY <1>0, <3>1, Zenon
  <2>2. /\ page' \in Nat
        /\ UNCHANGED <<phase, heap, frames, dump_max_depth, overflow, events, leaked>>
    BY <1>0, <1>8 DEF EnterHash
  <2> QED BY <1>1, <1>8, <2>1, <2>2, DumpSteps
<1>9. CASE Finish \/ Bailout
  <2>1. walks' = <<>> BY <1>9 DEF Finish, Bailout
  <2>2. walks' \in Seq(Walk) /\ DOMAIN walks' = {} BY <2>1
  <2>3. /\ phase' \in {"script", "shutdown"} /\ leaked' \subseteq Containers
        /\ UNCHANGED <<heap, frames, dump_max_depth, guard, overflow, page, events>>
    BY <1>0, <1>9 DEF Finish, Bailout
  <2> QED BY <1>0, <2>2, <2>3 DEF Typed, TypeOK
<1>10. CASE UNCHANGED vars
  BY <1>0, <1>10 DEF Typed, TypeOK, Shaped, vars
<1> QED BY <1>2, <1>3, <1>4, <1>5, <1>6, <1>7, <1>8, <1>9, <1>10 DEF Next, Step, Terminated

\* The marks stay right where the innermost walk goes on, as long as only what it
\* dumps now and did not before is marked, and the other way round.
LEMMA MarksGoOn ==
  ASSUME Typed, Marks, walks # <<>>, NEW walk \in Walk, Update(walk), UNCHANGED leaked,
         Distinct(walk), \A c \in Active(walk) : c \in Active(W) \/ guard[c] = 0,
         Active(walk) \subseteq Containers,
         \A c \in Active(walk) : guard'[c] = 1,
         \A c \in Active(W) : c \in Active(walk) \/ guard'[c] = 0,
         \A c \in Containers : c \in Active(walk) \/ c \in Active(W) \/ guard'[c] = guard[c]
  PROVE  Marks'
<1>1. /\ DOMAIN walks' = DOMAIN walks /\ 1 \in DOMAIN walks /\ W = walks[1]
      /\ walks'[1] = walk /\ \A i \in DOMAIN walks \ {1} : walks'[i] = walks[i]
  BY Updated DEF Typed, TypeOK, W
<1>2. \A i \in DOMAIN walks : \A c \in Active(walks[i]) : c \in Containers
  BY DEF Typed, Shaped, Active
\* What is not marked is nowhere being dumped.
<1>3. ASSUME NEW c \in Containers, guard[c] = 0
      PROVE  c \notin leaked /\ \A i \in DOMAIN walks : c \notin Active(walks[i])
  BY <1>3 DEF Marks, GuardsHeld
<1>4. ASSUME NEW c \in Active(walk)
      PROVE  c \notin leaked /\ \A i \in DOMAIN walks \ {1} : c \notin Active(walks[i])
  <2>1. CASE c \in Active(W) BY <1>1, <2>1 DEF Marks
  <2>2. CASE guard[c] = 0 BY <1>3, <2>2
  <2> QED BY <2>1, <2>2
<1>5. GuardsHeld'
  <2> SUFFICES ASSUME NEW c \in Containers
               PROVE  guard'[c] = 1 <=> c \in leaked \/ \E i \in DOMAIN walks : c \in Active(walks'[i])
    BY <1>1 DEF GuardsHeld
  <2>1. CASE c \in Active(walk) BY <1>1, <2>1
  <2>2. CASE c \notin Active(walk) /\ c \in Active(W)
    <3>1. c \notin leaked /\ \A i \in DOMAIN walks \ {1} : c \notin Active(walks[i])
      BY <1>1, <2>2 DEF Marks
    <3> QED BY <1>1, <2>2, <3>1
  <2>3. CASE c \notin Active(walk) /\ c \notin Active(W)
    <3>1. guard[c] = 1 <=> c \in leaked \/ \E i \in DOMAIN walks : c \in Active(walks[i])
      BY DEF Marks, GuardsHeld
    <3> QED BY <1>1, <2>3, <3>1
  <2> QED BY <2>1, <2>2, <2>3
<1>6. \A i \in DOMAIN walks' : Distinct(walks'[i]) /\ \A c \in Active(walks'[i]) : c \notin leaked'
  BY <1>1, <1>4 DEF Marks
<1>7. ASSUME NEW i \in DOMAIN walks', NEW j \in DOMAIN walks', i # j,
             NEW c \in Active(walks'[i])
      PROVE  c \notin Active(walks'[j])
  <2>1. CASE i = 1 BY <1>1, <1>4, <1>7, <2>1
  <2>2. CASE j = 1 BY <1>1, <1>4, <1>7, <2>2
  <2>3. CASE i # 1 /\ j # 1 BY <1>1, <1>7, <2>3 DEF Marks
  <2> QED BY <2>1, <2>2, <2>3
<1> QED BY <1>5, <1>6, <1>7 DEF Marks, Active, Distinct

\* What a walk dumps depends on the tables of its hashes alone.
LEMMA SameTables ==
  ASSUME NEW w, NEW v, Len(v.hashes) = Len(w.hashes), Len(w.hashes) \in Nat,
         \A k \in 1..Len(w.hashes) : v.hashes[k].of = w.hashes[k].of
  PROVE  Active(v) = Active(w) /\ (Distinct(w) => Distinct(v))
<1>1. \A k \in 2..Len(w.hashes) : k \in 1..Len(w.hashes) OBVIOUS
<1> QED BY <1>1 DEF Active, Distinct


LEMMA MarksNext == Typed /\ Marks /\ [Next]_vars => Marks'
<1> SUFFICES ASSUME Typed, Marks, [Next]_vars PROVE Marks'
  OBVIOUS
<1>0. guard \in [Containers -> 0..1] BY DEF Typed, TypeOK
\* Without a dump there is nothing marked in the innermost walk.
<1>a. ASSUME NEW w, Len(w.hashes) \in {0, 1} PROVE Active(w) = {} /\ Distinct(w)
  <2>1. \A n \in {0, 1} : 2..n = {} OBVIOUS
  <2>2. 2..Len(w.hashes) = {} BY <1>a, <2>1, Zenon
  <2> QED BY <2>2 DEF Active, Distinct
<1>b. Len(<<>>) = 0 OBVIOUS
<1>c. walks # <<>> => 1 \in DOMAIN walks /\ Distinct(W) /\ Active(W) \subseteq Containers
  <2>1. walks # <<>> => 1 \in DOMAIN walks /\ Shaped(W) BY Outermost
  <2> QED BY <2>1 DEF Marks, W, Shaped, Active
<1>1. CASE process_event \/ OutOfMemory
  <2>1. /\ walks'[1] = NewWalk
        /\ \A i \in DOMAIN walks' \ {1} : i - 1 \in DOMAIN walks /\ walks'[i] = walks[i - 1]
        /\ walks' \in Seq(Walk) /\ Len(walks') = Len(walks) + 1
    BY <1>1, BegunWalk
  <2>2. Active(NewWalk) = {} /\ Distinct(NewWalk)
    <3>1. Len(NewWalk.hashes) = 0 BY <1>b DEF NewWalk
    <3> QED BY <1>a, <3>1
  <2>3. UNCHANGED <<guard, leaked>> BY <1>1 DEF process_event, OutOfMemory
  <2>4. /\ walks \in Seq(Walk) /\ DOMAIN walks = 1..Len(walks) /\ Len(walks) \in Nat
        /\ DOMAIN walks' = 1..Len(walks) + 1
    BY <2>1, LenProperties DEF Typed, TypeOK
  <2>5. ASSUME NEW c \in Containers
        PROVE  (\E i \in DOMAIN walks' : c \in Active(walks'[i]))
                 <=> (\E i \in DOMAIN walks : c \in Active(walks[i]))
    <3>1. ASSUME NEW i \in DOMAIN walks', c \in Active(walks'[i])
          PROVE  \E j \in DOMAIN walks : c \in Active(walks[j])
      BY <2>1, <2>2, <3>1
    <3>2. ASSUME NEW i \in DOMAIN walks, c \in Active(walks[i])
          PROVE  \E j \in DOMAIN walks' : c \in Active(walks'[j])
      <4>1. i + 1 \in DOMAIN walks' \ {1} /\ (i + 1) - 1 = i BY <2>4
      <4> QED BY <2>1, <3>2, <4>1
    <3> QED BY <3>1, <3>2
  <2>6. GuardsHeld' BY <2>3, <2>5 DEF Marks, GuardsHeld, Active
  <2>7. ASSUME NEW i \in DOMAIN walks'
        PROVE  Distinct(walks'[i]) /\ \A c \in Active(walks'[i]) : c \notin leaked'
    BY <2>1, <2>2, <2>3 DEF Marks
  <2>8. ASSUME NEW i \in DOMAIN walks', NEW j \in DOMAIN walks', i # j
        PROVE  \A c \in Active(walks'[i]) : c \notin Active(walks'[j])
    <3>1. CASE i = 1 \/ j = 1 BY <2>1, <2>2, <3>1
    <3>2. CASE i # 1 /\ j # 1
      <4>1. i - 1 # j - 1 BY <2>4, <2>8
      <4> QED BY <2>1, <3>2, <4>1 DEF Marks
    <3> QED BY <3>1, <3>2
  <2> QED BY <2>6, <2>7, <2>8 DEF Marks, Active, Distinct
<1>2. ASSUME BeginFrame \/ EndLine \/ EndArguments PROVE Marks'
  <2>1. walks # <<>> /\ UNCHANGED <<guard, leaked>>
    BY <1>2, DumpSteps DEF BeginFrame, EndLine, EndArguments
  <2>2. PICK walk \in Walk : Update(walk) /\ Len(walk.hashes) \in {0, 1} /\ Len(Hashes) \in {0, 1}
    <3>1. ASSUME NEW walk \in Walk, Len(walk.hashes) <= 1 PROVE Len(walk.hashes) \in {0, 1}
      <4>1. walk.hashes \in Seq(Hash) BY DEF Walk
      <4>2. Len(walk.hashes) \in Nat BY <4>1, LenProperties
      <4>3. \A n \in Nat : n <= 1 => n \in {0, 1} OBVIOUS
      <4> QED BY <3>1, <4>2, <4>3, Zenon
    <3>2. CASE BeginFrame BY <1>b, <3>1, <3>2, DumpSteps
    <3>3. CASE EndLine BY <1>b, <3>3, DumpSteps
    <3>4. CASE EndArguments BY <1>b, <3>4, DumpSteps
    <3> QED BY <1>2, <3>2, <3>3, <3>4
  <2>3. Active(walk) = {} /\ Distinct(walk) /\ Active(W) = {}
    BY <1>a, <2>2 DEF Hashes
  <2> QED BY <2>1, <2>2, <2>3, MarksGoOn
<1>3. ASSUME CutArgument \/ ShowLeaf \/ Recursion PROVE Marks'
  <2>1. walks # <<>> /\ Dumping /\ UNCHANGED <<guard, leaked>>
    BY <1>3, DumpSteps DEF CutArgument, ShowLeaf, Recursion, Showing
  <2>2. PICK walk \in Walk : Update(walk) /\ walk.hashes = Advance(Hashes)
    BY <1>3, DumpSteps
  <2>3. Active(walk) = Active(W) /\ Distinct(walk)
    <3>1. Hashes \in Seq(Hash) /\ Hashes # <<>> /\ Len(Hashes) \in Nat
      BY <2>1, Outermost, InnermostHash
    <3>2. /\ Len(Advance(Hashes)) = Len(Hashes)
          /\ \A k \in 1..Len(Hashes) : Advance(Hashes)[k].of = Hashes[k].of
      BY <3>1, AdvanceOf
    <3> QED BY <1>c, <2>1, <2>2, <3>1, <3>2, SameTables DEF Hashes
  <2>4. \A c \in Active(walk) : guard'[c] = 1
    BY <1>c, <2>1, <2>3 DEF Marks, GuardsHeld, W
  <2> QED BY <1>c, <2>1, <2>2, <2>3, <2>4, MarksGoOn
<1>4. CASE LeaveHash
  <2>1. /\ walks # <<>> /\ Dumping /\ UNCHANGED leaked
        /\ guard' = [guard EXCEPT ![Innermost.of] = @ - 1]
    BY <1>4, DumpSteps DEF LeaveHash
  <2>2. PICK walk \in Walk : /\ Update(walk) /\ walk.hashes = Advance(Front(Hashes))
                             /\ Len(Hashes) >= 2
    BY <1>4, DumpSteps
  <2>3. Innermost.of \in Containers /\ Innermost.of \in Active(W) /\ guard[Innermost.of] = 1
    BY <1>4, LeftIsMarked
  <2>4. Hashes \in Seq(Hash) /\ Len(Hashes) \in Nat
    BY <2>1, Outermost, LenProperties
  <2>5. /\ Front(Hashes) \in Seq(Hash) /\ Len(Front(Hashes)) = Len(Hashes) - 1
        /\ Front(Hashes) # <<>> /\ \A k \in 1..(Len(Hashes) - 1) : Front(Hashes)[k] = Hashes[k]
    BY <2>2, <2>4, FrontOf
  <2>6. /\ Len(walk.hashes) = Len(Hashes) - 1
        /\ \A k \in 1..Len(Hashes) - 1 : walk.hashes[k].of = Hashes[k].of
    BY <2>2, <2>5, AdvanceOf
  <2>7. 2..Len(Hashes) = 2..Len(walk.hashes) \union {Len(Hashes)}
        /\ Len(Hashes) \notin 2..Len(walk.hashes)
        /\ \A k \in 2..Len(walk.hashes) : k \in 1..Len(Hashes) - 1
    BY <2>2, <2>4, <2>6
  <2>8. \A k \in 2..Len(walk.hashes) : walk.hashes[k].of = Hashes[k].of /\ walk.hashes[k].of # Innermost.of
    <3>1. \A k, l \in 2..Len(Hashes) : Hashes[k].of = Hashes[l].of => k = l
      BY <1>c, <2>1 DEF Distinct, Hashes
    <3> QED BY <2>6, <2>7, <3>1 DEF Innermost
  <2>9. Active(walk) = Active(W) \ {Innermost.of}
    <3>1. Active(W) = {Hashes[k].of : k \in 2..Len(Hashes)} BY DEF Active, Hashes
    <3>2. Active(W) = {Hashes[k].of : k \in 2..Len(walk.hashes)} \union {Innermost.of}
      BY <2>7, <3>1 DEF Innermost
    <3> QED BY <2>8, <3>2 DEF Active
  <2>10. Distinct(walk)
    BY <1>c, <2>1, <2>7, <2>8 DEF Distinct, Hashes
  <2>11. guard' = [guard EXCEPT ![Innermost.of] = 0] BY <2>1, <2>3
  <2>12. guard'[Innermost.of] = 0 /\ \A c \in Containers \ {Innermost.of} : guard'[c] = guard[c]
    BY <1>0, <2>3, <2>11
  <2>13. \A c \in Active(walk) : guard'[c] = 1
    BY <1>c, <2>1, <2>9, <2>12 DEF Marks, GuardsHeld, W
  <2> QED BY <1>c, <2>1, <2>2, <2>3, <2>9, <2>10, <2>12, <2>13, MarksGoOn
<1>5. CASE EnterHash
  <2>1. /\ walks # <<>> /\ Dumping /\ UNCHANGED leaked
        /\ guard[Value] = 0 /\ guard' = [guard EXCEPT ![Value] = 1]
    BY <1>5, DumpSteps DEF EnterHash, Showing
  <2>2. PICK walk \in Walk, h \in Hash : /\ Update(walk) /\ walk.hashes = Append(Hashes, h)
                                         /\ h.of = Value /\ Value \in Containers
    BY <1>5, DumpSteps
  <2>3. Hashes \in Seq(Hash) /\ Len(Hashes) \in Nat \ {0}
    BY <2>1, Outermost, InnermostHash
  <2>4. /\ Len(walk.hashes) = Len(Hashes) + 1 /\ walk.hashes[Len(Hashes) + 1] = h
        /\ \A k \in 1..Len(Hashes) : walk.hashes[k] = Hashes[k]
    BY <2>2, <2>3, AppendProperties
  <2>5. 2..Len(walk.hashes) = 2..Len(Hashes) \union {Len(Hashes) + 1}
        /\ \A k \in 2..Len(Hashes) : k \in 1..Len(Hashes)
    BY <2>3, <2>4
  <2>6. Active(walk) = Active(W) \union {Value}
    BY <2>2, <2>4, <2>5 DEF Active, Hashes
  <2>7. Value \notin Active(W)
    BY <1>c, <2>1, <2>2 DEF Marks, GuardsHeld, W
  <2>8. Distinct(walk)
    <3>1. \A k \in 2..Len(Hashes) : Hashes[k].of # Value BY <2>7 DEF Active, Hashes
    <3> QED BY <1>c, <2>1, <2>2, <2>4, <2>5, <3>1 DEF Distinct, Hashes
  <2>9. guard'[Value] = 1 /\ \A c \in Containers \ {Value} : guard'[c] = guard[c]
    BY <1>0, <2>1, <2>2
  <2>10. \A c \in Active(walk) : guard'[c] = 1
    BY <1>c, <2>1, <2>6, <2>9 DEF Marks, GuardsHeld, W
  <2> QED BY <1>c, <2>1, <2>2, <2>6, <2>8, <2>9, <2>10, MarksGoOn
<1>6. CASE Bailout
  <2>1. walks' = <<>> /\ DOMAIN walks' = {} /\ guard' = guard
        /\ leaked' = {c \in Containers : guard[c] > 0}
    BY <1>6 DEF Bailout
  <2>2. \A c \in Containers : guard[c] = 1 <=> c \in leaked'
    BY <1>0, <2>1
  <2> QED BY <2>1, <2>2 DEF Marks, GuardsHeld
\* The only walk is over its frames, and dumps nothing.
<1>7. CASE Finish
  <2>1. /\ walks # <<>> /\ W.at = "frame" /\ Len(walks) = 1 /\ walks' = <<>>
        /\ UNCHANGED <<guard, leaked>>
    BY <1>7 DEF Finish, Walking
  <2>2. DOMAIN walks = {1} /\ DOMAIN walks' = {}
    <3>1. walks \in Seq(Walk) BY DEF Typed, TypeOK
    <3>2. DOMAIN walks = 1..1 BY <2>1, <3>1, LenProperties
    <3> QED BY <2>1, <3>2
  <2>3. Active(walks[1]) = {}
    <3>1. W.hashes = <<>> BY <2>1, Outermost DEF Shaped
    <3> QED BY <1>a, <1>b, <3>1 DEF W
  <2>4. \A c \in Containers : guard[c] = 1 <=> c \in leaked
    BY <2>2, <2>3 DEF Marks, GuardsHeld
  <2> QED BY <2>1, <2>2, <2>4 DEF Marks, GuardsHeld
<1>8. CASE UNCHANGED vars
  BY <1>8 DEF Marks, GuardsHeld, Active, Distinct, vars
<1> QED BY <1>1, <1>2, <1>3, <1>4, <1>5, <1>6, <1>7, <1>8 DEF Next, Step, Terminated

LEMMA MarksInit == Init => Marks
<1> SUFFICES ASSUME Init PROVE Marks
  OBVIOUS
<1>1. DOMAIN walks = {} BY DEF Init
<1>2. \A c \in Containers : guard[c] = 0 /\ c \notin leaked BY DEF Init
<1> QED BY <1>1, <1>2 DEF Marks, GuardsHeld

\* Every variable keeps its type; in particular no mark is taken off twice.
THEOREM BacktraceTypes == Spec => []TypeOK
<1>1. Typed => TypeOK BY DEF Typed
<1> QED BY <1>1, TypesInit, TypesNext, MarksInit, MarksNext, PTL DEF Spec

\* Whatever contains what, and wherever memory runs out, a container is marked exactly
\* while it is being dumped, or after a long jump left its dump.
THEOREM GuardsAreHeld == Spec => []GuardsHeld
<1>1. Marks => GuardsHeld BY DEF Marks
<1> QED BY <1>1, TypesInit, TypesNext, MarksInit, MarksNext, PTL DEF Spec

-----------------------------------------------------------------------------
(* The lines *)

\* With stacks in which a callback is made by the code that runs below it, and from
\* what is not a call, as the engine makes them: a line whose end goes into the page
\* has the inclusion of a file right below its dummy frame.
LEMMA PrintedAtInclude ==
  ASSUME \A s \in Stacks : \A k \in 1..(Len(s) - 1) :
           s[k].kind = "dummy" => s[k + 1].kind = "user" /\ s[k + 1].opcode # "call",
         Typed, NEW p \in Nat \ {0}, Printed(Skip(p))
  PROVE  \E k \in 1..(Len(frames) - 1) :
           frames[k].kind = "dummy" /\ frames[k + 1].opcode = "include"
<1>1. frames \in Stacks /\ frames \in Seq(Frames) /\ Len(frames) \in Nat
  BY BacktraceAssumption, LenProperties DEF Typed, TypeOK
<1>2. PICK s : s = Skip(p) /\ s \in Nat \ {0}
  BY DEF Skip
<1>3. frames[s].kind = "dummy" /\ s \in 1..(Len(frames) - 1)
  BY <1>1, <1>2 DEF Printed
<1>4. frames[s + 1].kind = "user" /\ frames[s + 1].opcode # "call"
  BY <1>1, <1>3
<1>5. s = p /\ frames[s + 1].opcode # "other"
  BY <1>1, <1>2, <1>3, <1>4 DEF Skip, User
<1>6. frames[s + 1] \in Frames
  <2>1. s + 1 \in 1..Len(frames) BY <1>1, <1>3
  <2> QED BY <1>1, <2>1, ElementOfSeq
<1>7. frames[s + 1].opcode = "include"
  BY <1>4, <1>5, <1>6 DEF Frames
<1> QED BY <1>3, <1>7

\* For every such stack, a line ends in the trace, but for the one below which a
\* file is included.
THEOREM LinesAreEnded ==
  ASSUME \A s \in Stacks : \A k \in 1..(Len(s) - 1) :
           s[k].kind = "dummy" => s[k + 1].kind = "user" /\ s[k + 1].opcode # "call"
  PROVE  Spec => []LinesEnded
<1>1. Init => LinesEnded
  BY DEF Init, LinesEnded
<1>2. ASSUME Typed, LinesEnded, [Next]_vars PROVE LinesEnded'
  <2>1. CASE EndLine
    <3>1. frames' = frames /\ walks # <<>>
          /\ (page' = page \/ Printed(Skip(W.ptr)))
      BY <2>1 DEF EndLine, Walking
    <3>2. W.ptr \in Nat \ {0} BY <1>2, <3>1, Outermost
    <3>3. CASE page' = page BY <1>2, <3>1, <3>3 DEF LinesEnded
    <3>4. CASE Printed(Skip(W.ptr))
      <4>1. \E k \in 1..(Len(frames) - 1) :
              frames[k].kind = "dummy" /\ frames[k + 1].opcode = "include"
        BY <1>2, <3>2, <3>4, PrintedAtInclude
      <4> QED BY <3>1, <4>1 DEF LinesEnded
    <3> QED BY <3>1, <3>3, <3>4
  <2>2. CASE process_event
    BY <2>2 DEF process_event, LinesEnded
  <2>3. ASSUME UNCHANGED <<frames, page>> PROVE LinesEnded'
    BY <1>2, <2>3 DEF LinesEnded
  <2> QED BY <1>2, <2>1, <2>2, <2>3
          DEF Next, Step, Terminated, vars, BeginFrame, Finish, EndArguments, CutArgument,
              LeaveHash, ShowLeaf, Recursion, EnterHash, Bailout, OutOfMemory
<1> QED BY <1>1, <1>2, TypesInit, TypesNext, MarksInit, MarksNext, PTL DEF Spec

-----------------------------------------------------------------------------
(* The walk over the frames *)

\* A step of the innermost walk.
LEMMA OneWalk ==
  ASSUME Typed, walks # <<>>, NEW walk, Update(walk)
  PROVE  /\ walks' # <<>> /\ Len(walks') = Len(walks) /\ DOMAIN walks' = DOMAIN walks
         /\ 1 \in DOMAIN walks /\ W' = walk
         /\ \A i \in DOMAIN walks \ {1} : walks'[i] = walks[i]
<1> DEFINE S == Walk \union {walk}
<1>1. walks \in Seq(Walk) BY DEF Typed, TypeOK
<1>2. /\ Tail(walks) \in Seq(Walk) /\ Len(Tail(walks)) = Len(walks) - 1
      /\ \A i \in 1..Len(Tail(walks)) : Tail(walks)[i] = walks[i + 1]
      /\ Len(walks) \in Nat \ {0} /\ DOMAIN walks = 1..Len(walks)
  BY <1>1, HeadTailProperties, LenProperties, EmptySeq
<1>3. Tail(walks) \in Seq(S) /\ walk \in S
  BY <1>2, SeqMonotonic
<1> HIDE DEF S
<1>4. <<walk>> \in Seq(S) /\ Len(<<walk>>) = 1 /\ <<walk>>[1] = walk
  BY <1>3
<1>5. /\ walks' \in Seq(S) /\ Len(walks') = 1 + Len(Tail(walks))
      /\ \A i \in 1..Len(walks') :
           walks'[i] = IF i <= 1 THEN <<walk>>[i] ELSE Tail(walks)[i - 1]
  BY <1>3, <1>4, ConcatProperties DEF Update
<1>6. Len(walks') = Len(walks) BY <1>2, <1>5
<1>7. DOMAIN walks' = DOMAIN walks /\ walks' # <<>>
  BY <1>2, <1>5, <1>6, LenProperties, EmptySeq
<1>8. ASSUME NEW i \in 2..Len(walks) PROVE walks'[i] = walks[i]
  <2>1. i - 1 \in 1..Len(Tail(walks)) /\ (i - 1) + 1 = i /\ ~(i <= 1) /\ i \in 1..Len(walks')
    BY <1>2, <1>6
  <2> QED BY <1>2, <1>5, <2>1
<1>9. 1 \in 1..Len(walks) /\ 1 \in 1..Len(walks') /\ 1..Len(walks) \ {1} = 2..Len(walks)
  BY <1>2, <1>6
<1>10. walks'[1] = walk BY <1>4, <1>5, <1>9
<1> QED BY <1>2, <1>6, <1>7, <1>8, <1>9, <1>10 DEF W

\* The lines that a walk has written have the frames of code it has passed for their
\* call sites, in order; a line is written of a frame that is there.
Covered(w) ==
  /\ w.at # "frame" => w.ptr <= Len(frames)
  /\ \A p \in Nat \ {0} : (\E j \in DOMAIN w.lines : w.lines[j].site = p)
                            <=> p \in DOMAIN frames /\ User(p) /\ p < w.ptr
  /\ \A j \in DOMAIN w.lines : w.lines[j].site < w.ptr
  /\ \A j, k \in DOMAIN w.lines :
       j < k /\ w.lines[k].site # 0 => w.lines[j].site < w.lines[k].site
AllCovered == \A i \in DOMAIN walks : Covered(walks[i])

\* A frame is passed, and with it the one that Skip passed over.
LEMMA Passed ==
  ASSUME Typed, NEW p \in 1..Len(frames)
  PROVE  LET s == Skip(p) IN
         /\ s \in 1..Len(frames) /\ NextPtr(p) = s + 1 /\ s >= p
         /\ \A q \in DOMAIN frames : User(q) /\ q < s + 1 <=> User(q) /\ (q < p \/ q = s)
<1>1. Len(frames) \in Nat /\ DOMAIN frames = 1..Len(frames)
  BY BacktraceAssumption, LenProperties DEF Typed, TypeOK
<1>2. CASE ~User(p) /\ p < Len(frames) /\ User(p + 1) /\ frames[p + 1].opcode = "other"
  <2>1. Skip(p) = p + 1 /\ NextPtr(p) = p + 2 BY <1>1, <1>2 DEF Skip, NextPtr
  <2>2. \A q \in 1..Len(frames) : q < p + 1 + 1 <=> q < p \/ q = p \/ q = p + 1
    BY <1>1
  <2> QED BY <1>1, <1>2, <2>1, <2>2
<1>3. CASE ~(~User(p) /\ p < Len(frames) /\ User(p + 1) /\ frames[p + 1].opcode = "other")
  <2>1. Skip(p) = p /\ NextPtr(p) = p + 1 BY <1>3 DEF Skip, NextPtr
  <2> QED BY <1>1, <2>1
<1> QED BY <1>2, <1>3

LEMMA CoveredNext == Typed /\ AllCovered /\ [Next]_vars => AllCovered'
<1> SUFFICES ASSUME Typed, AllCovered, [Next]_vars PROVE AllCovered'
  OBVIOUS
<1>0. Len(frames) \in Nat /\ DOMAIN frames = 1..Len(frames)
  BY BacktraceAssumption, LenProperties DEF Typed, TypeOK
<1>1. ASSUME walks # <<>>, NEW walk, Update(walk), UNCHANGED frames, Covered(walk)
      PROVE  AllCovered'
  <2>1. walks'[1] = walk /\ DOMAIN walks' = DOMAIN walks
        /\ \A i \in DOMAIN walks \ {1} : walks'[i] = walks[i]
    BY <1>1, OneWalk DEF W
  <2>2. \A i \in DOMAIN walks' : Covered(walks'[i])
    BY <1>1, <2>1 DEF AllCovered
  <2> QED BY <1>1, <2>2 DEF AllCovered, Covered, User
<1>2. ASSUME walks # <<>> PROVE W \in Walk /\ Covered(W)
  BY <1>2, Outermost DEF AllCovered, W
\* A step that writes no line.
<1>3. ASSUME walks # <<>>, NEW walk, Update(walk), UNCHANGED frames,
             walk.ptr = W.ptr, walk.lines = W.lines, W.at # "frame" \/ More
      PROVE  AllCovered'
  <2>1. Covered(walk)
    BY <1>2, <1>3 DEF Covered, More
  <2> QED BY <1>1, <1>3, <2>1
<1>4. CASE BeginFrame
  <2>1. walks # <<>> /\ More BY <1>4 DEF BeginFrame, Walking
  <2>2. PICK at, hashes : Update([W EXCEPT !.at = at, !.hashes = hashes, !.shown = <<>>])
    <3>1. W \in Walk BY <1>2, <2>1
    <3>2. [W EXCEPT !.at = "site", !.shown = <<>>]
            = [W EXCEPT !.at = "site", !.hashes = W.hashes, !.shown = <<>>]
      BY <3>1 DEF Walk
    <3> QED BY <1>4, <3>2, Zenon DEF BeginFrame
  <2> DEFINE walk == [W EXCEPT !.at = at, !.hashes = hashes, !.shown = <<>>]
  <2>3. walk.ptr = W.ptr /\ walk.lines = W.lines BY <1>2, <2>1 DEF Walk
  <2> HIDE DEF walk
  <2>4. UNCHANGED frames BY <1>4 DEF BeginFrame
  <2> QED BY <1>3, <2>1, <2>2, <2>3, <2>4 DEF walk
<1>5. CASE EndLine
  <2> DEFINE s == Skip(W.ptr)
             line == [call |-> W.call, site |-> IF User(s) THEN s ELSE 0]
             walk == [W EXCEPT !.at = "frame", !.lines = Append(@, line),
                               !.ptr = NextPtr(@), !.call = s]
  <2>1. walks # <<>> /\ W.at = "site" /\ Update(walk) /\ UNCHANGED frames
    BY <1>5 DEF EndLine, Walking
  <2>2. W \in Walk /\ Covered(W) BY <1>2, <2>1
  <2>3. W.ptr \in 1..Len(frames) /\ W.lines \in Seq(Line)
    <3>1. W.ptr \in Nat \ {0} /\ W.lines \in Seq(Line) BY <2>2 DEF Walk
    <3> QED BY <1>0, <2>1, <2>2, <3>1 DEF Covered
  <2>4. /\ s \in 1..Len(frames) /\ NextPtr(W.ptr) = s + 1 /\ s >= W.ptr
        /\ \A q \in DOMAIN frames : User(q) /\ q < s + 1 <=> User(q) /\ (q < W.ptr \/ q = s)
    BY <2>3, Passed
  <2>5. line \in Line /\ line.site = IF User(s) THEN s ELSE 0
    <3>1. W.call \in Nat \ {0} BY <2>2 DEF Walk
    <3> QED BY <1>0, <2>4, <3>1 DEF Line
  <2>6. walk.at = "frame" /\ walk.lines = Append(W.lines, line) /\ walk.ptr = s + 1
    BY <2>2, <2>4 DEF Walk
  <2> HIDE DEF s, line, walk
  <2>7. /\ Len(W.lines) \in Nat /\ DOMAIN W.lines = 1..Len(W.lines)
        /\ DOMAIN walk.lines = 1..(Len(W.lines) + 1) /\ walk.lines[Len(W.lines) + 1] = line
        /\ \A j \in 1..Len(W.lines) : walk.lines[j] = W.lines[j] /\ W.lines[j].site \in Nat
    <3>1. /\ Append(W.lines, line) \in Seq(Line)
          /\ Len(Append(W.lines, line)) = Len(W.lines) + 1
          /\ Append(W.lines, line)[Len(W.lines) + 1] = line
          /\ \A j \in 1..Len(W.lines) : Append(W.lines, line)[j] = W.lines[j]
      BY <2>3, <2>5, AppendProperties
    <3>2. \A j \in 1..Len(W.lines) : W.lines[j] \in Line BY <2>3, ElementOfSeq
    <3> QED BY <2>3, <2>6, <3>1, <3>2, LenProperties DEF Line
  <2>8. ASSUME NEW p \in Nat \ {0}
        PROVE  (\E j \in DOMAIN walk.lines : walk.lines[j].site = p)
                 <=> p \in DOMAIN frames /\ User(p) /\ p < walk.ptr
    <3>1. (\E j \in DOMAIN walk.lines : walk.lines[j].site = p)
            <=> (\E j \in DOMAIN W.lines : W.lines[j].site = p) \/ line.site = p
      <4>1. \A j \in DOMAIN walk.lines : j = Len(W.lines) + 1 \/ j \in DOMAIN W.lines BY <2>7
      <4>2. \A j \in DOMAIN W.lines : j \in DOMAIN walk.lines /\ walk.lines[j] = W.lines[j]
        BY <2>7
      <4>3. Len(W.lines) + 1 \in DOMAIN walk.lines BY <2>7
      <4> QED BY <2>7, <4>1, <4>2, <4>3, Zenon
    <3>2. (\E j \in DOMAIN W.lines : W.lines[j].site = p)
            <=> p \in DOMAIN frames /\ User(p) /\ p < W.ptr
      BY <2>2 DEF Covered
    <3>3. line.site = p <=> User(s) /\ p = s BY <2>5
    <3> QED BY <1>0, <2>4, <2>6, <3>1, <3>2, <3>3
  <2>9. \A j \in DOMAIN W.lines : W.lines[j].site < W.ptr /\ W.lines[j].site \in Nat
    BY <2>2, <2>7 DEF Covered
  <2>10. \A j \in DOMAIN walk.lines : walk.lines[j].site < walk.ptr
    <3>1. line.site < s + 1 BY <1>0, <2>4, <2>5
    <3>2. \A j \in DOMAIN W.lines : W.lines[j].site < s + 1 BY <1>0, <2>3, <2>4, <2>9
    <3>3. \A j \in DOMAIN walk.lines : j = Len(W.lines) + 1 \/ j \in DOMAIN W.lines BY <2>7
    <3> QED BY <2>6, <2>7, <3>1, <3>2, <3>3
  <2>11. ASSUME NEW j \in DOMAIN walk.lines, NEW k \in DOMAIN walk.lines, j < k,
                walk.lines[k].site # 0
         PROVE  walk.lines[j].site < walk.lines[k].site
    <3>1. j \in DOMAIN W.lines BY <2>7, <2>11
    <3>2. CASE k \in DOMAIN W.lines
      BY <2>2, <2>7, <2>11, <3>1, <3>2 DEF Covered
    <3>3. CASE k = Len(W.lines) + 1
      <4>1. walk.lines[k].site = s BY <2>5, <2>7, <2>11, <3>3
      <4>2. walk.lines[j] = W.lines[j] BY ONLY <2>7, <3>1
      <4>3. W.lines[j].site < W.ptr /\ W.lines[j].site \in Nat BY ONLY <2>9, <3>1
      <4>4. s \in Nat /\ W.ptr \in Nat /\ s >= W.ptr BY ONLY <1>0, <2>3, <2>4
      <4>5. W.lines[j].site < s BY ONLY <4>3, <4>4
      <4> QED BY ONLY <4>1, <4>2, <4>5
    <3> QED BY <2>7, <3>2, <3>3
  <2>12. Covered(walk)
    BY <2>6, <2>8, <2>10, <2>11 DEF Covered
  <2> QED BY <1>1, <2>1, <2>12
<1>6. ASSUME EndArguments \/ CutArgument \/ LeaveHash \/ ShowLeaf \/ Recursion \/ EnterHash
      PROVE  AllCovered'
  <2>1. walks # <<>> /\ W.at = "args" /\ UNCHANGED frames
    BY <1>6 DEF EndArguments, CutArgument, LeaveHash, ShowLeaf, Recursion, EnterHash, Showing,
                Dumping, Walking
  <2>2. W \in Walk BY <1>2, <2>1
  <2>3. PICK at, hashes, shown :
          Update([W EXCEPT !.at = at, !.hashes = hashes, !.shown = shown])
    <3>1. \A at, hashes, shown :
            /\ [W EXCEPT !.hashes = hashes] = [W EXCEPT !.at = W.at, !.hashes = hashes, !.shown = W.shown]
            /\ [W EXCEPT !.at = at, !.hashes = hashes]
                 = [W EXCEPT !.at = at, !.hashes = hashes, !.shown = W.shown]
            /\ [W EXCEPT !.hashes = hashes, !.shown = shown]
                 = [W EXCEPT !.at = W.at, !.hashes = hashes, !.shown = shown]
      BY <2>2 DEF Walk
    <3>2. \E at, hashes, shown : \/ Update([W EXCEPT !.hashes = hashes])
                                 \/ Update([W EXCEPT !.at = at, !.hashes = hashes])
                                 \/ Update([W EXCEPT !.hashes = hashes, !.shown = shown])
      BY <1>6, Zenon DEF EndArguments, CutArgument, LeaveHash, ShowLeaf, Recursion, EnterHash
    <3>3. PICK a1, h1, s1 : \/ Update([W EXCEPT !.hashes = h1])
                           \/ Update([W EXCEPT !.at = a1, !.hashes = h1])
                           \/ Update([W EXCEPT !.hashes = h1, !.shown = s1])
      BY <3>2, Zenon
    <3>4. \/ Update([W EXCEPT !.at = W.at, !.hashes = h1, !.shown = W.shown])
          \/ Update([W EXCEPT !.at = a1, !.hashes = h1, !.shown = W.shown])
          \/ Update([W EXCEPT !.at = W.at, !.hashes = h1, !.shown = s1])
      BY <3>1, <3>3, Zenon
    <3> QED BY <3>4, Zenon
  <2> DEFINE walk == [W EXCEPT !.at = at, !.hashes = hashes, !.shown = shown]
  <2>4. walk.ptr = W.ptr /\ walk.lines = W.lines BY <2>2 DEF Walk
  <2> HIDE DEF walk
  <2>5. Update(walk) BY <2>3 DEF walk
  <2> QED BY <1>3, <2>1, <2>4, <2>5
<1>7. CASE process_event \/ OutOfMemory
  <2>1. /\ walks' \in Seq(Walk) /\ walks'[1] = NewWalk
        /\ \A i \in DOMAIN walks' \ {1} : i - 1 \in DOMAIN walks /\ walks'[i] = walks[i - 1]
    BY <1>7, BegunWalk
  <2>2. UNCHANGED frames BY <1>7 DEF process_event, OutOfMemory
  <2>3. Covered(NewWalk)
    <3>1. NewWalk.at = "frame" /\ NewWalk.ptr = 1 /\ DOMAIN NewWalk.lines = {} BY DEF NewWalk
    <3> QED BY <3>1 DEF Covered
  <2>4. \A i \in DOMAIN walks' : Covered(walks'[i])
    BY <2>1, <2>3 DEF AllCovered
  <2> QED BY <2>2, <2>4 DEF AllCovered, Covered, User
<1>8. CASE Finish \/ Bailout
  <2>1. DOMAIN walks' = {} BY <1>8 DEF Finish, Bailout
  <2> QED BY <2>1 DEF AllCovered
<1>9. CASE UNCHANGED vars
  BY <1>9 DEF AllCovered, Covered, User, vars
<1> QED BY <1>4, <1>5, <1>6, <1>7, <1>8, <1>9 DEF Next, Step, Terminated

\* Every frame of code is the call site of exactly one line, innermost first, for any
\* stack of frames, and also in the trace of an error within a trace.
THEOREM EveryFrameHasItsLine == Spec => []EveryFrameOnce
<1>1. Typed /\ AllCovered => EveryFrameOnce
  <2> SUFFICES ASSUME Typed, AllCovered, Walking("frame"), ~More
               PROVE  /\ {line.site : line \in ToSet(W.lines)} \ {0}
                           = {p \in DOMAIN frames : User(p)}
                      /\ \A j, k \in DOMAIN W.lines :
                           j < k /\ W.lines[k].site # 0 => W.lines[j].site < W.lines[k].site
    BY DEF EveryFrameOnce
  <2>1. W \in Walk /\ Covered(W) BY Outermost DEF Walking, AllCovered, W
  <2>2. Len(frames) \in Nat /\ DOMAIN frames = 1..Len(frames)
    BY BacktraceAssumption, LenProperties DEF Typed, TypeOK
  <2>3. \A p \in DOMAIN frames : p < W.ptr
    <3>1. W.ptr \in Nat BY <2>1 DEF Walk
    <3> QED BY <2>2, <3>1 DEF More
  <2>4. \A j \in DOMAIN W.lines : W.lines[j].site \in Nat
    <3>1. W.lines \in Seq(Line) BY <2>1 DEF Walk
    <3>2. \A j \in DOMAIN W.lines : W.lines[j] \in Line
      BY <3>1, LenProperties, ElementOfSeq
    <3> QED BY <3>2 DEF Line
  <2>5. {line.site : line \in ToSet(W.lines)} = {W.lines[j].site : j \in DOMAIN W.lines}
    BY DEF ToSet
  <2>6. \A p \in Nat \ {0} : p \in {W.lines[j].site : j \in DOMAIN W.lines}
                               <=> p \in DOMAIN frames /\ User(p)
    BY <2>1, <2>3 DEF Covered
  <2>7. {W.lines[j].site : j \in DOMAIN W.lines} \ {0} = {p \in DOMAIN frames : User(p)}
    <3>1. \A p \in DOMAIN frames : p \in Nat \ {0} BY <2>2
    <3> QED BY <2>4, <2>6, <3>1
  <2> QED BY <2>1, <2>5, <2>7 DEF Covered
<1>2. Init => AllCovered
  <2>1. Init => DOMAIN walks = {} BY DEF Init
  <2> QED BY <2>1 DEF AllCovered
<1> QED BY <1>1, <1>2, CoveredNext, TypesInit, TypesNext, MarksInit, MarksNext, PTL DEF Spec

-----------------------------------------------------------------------------
(* Paths, and the order in which they are shown *)

Positions == Seq(Nat \ {0}) \ {<<>>}

LEMMA PositionTypes ==
  ASSUME NEW p \in Positions
  PROVE  /\ Len(p) \in Nat \ {0} /\ DOMAIN p = 1..Len(p)
         /\ \A k \in 1..Len(p) : p[k] \in Nat \ {0}
BY LenProperties, EmptySeq, ElementOfSeq DEF Positions

LEMMA SamePath ==
  ASSUME NEW p \in Positions, NEW q \in Positions, Len(p) = Len(q),
         \A k \in 1..Len(q) : p[k] = q[k]
  PROVE  p = q
<1>1. p = [k \in 1..Len(p) |-> p[k]] /\ q = [k \in 1..Len(q) |-> q[k]]
  BY LenProperties DEF Positions
<1> QED BY <1>1

\* Where two paths part, or the one ends.
Parting(p, q, k) == p[k] < q[k] /\ \A l \in 1..(k - 1) : p[l] = q[l]
Begins(p, n, q) == \A l \in 1..n : p[l] = q[l]

LEMMA BeforeCases ==
  ASSUME NEW p \in Positions, NEW q \in Positions
  PROVE  Before(p, q) <=> \/ \E k \in 1..Len(p) : k <= Len(q) /\ Parting(p, q, k)
                          \/ Len(p) < Len(q) /\ Begins(p, Len(p), q)
<1>1. DOMAIN p = 1..Len(p) /\ DOMAIN q = 1..Len(q) /\ Len(p) \in Nat /\ Len(q) \in Nat
  BY PositionTypes
<1>2. \A k : k \in DOMAIN p \intersect DOMAIN q <=> k \in 1..Len(p) /\ k <= Len(q)
  BY <1>1
<1> QED BY <1>1, <1>2, Zenon DEF Before, Parting, Begins

\* What comes before the next element, before the first element of the value, and
\* before the element after the table.
LEMMA BeforeNext ==
  ASSUME NEW p \in Positions, NEW q \in Positions, NEW r \in Positions,
         Len(r) = Len(q), \A k \in 1..(Len(q) - 1) : r[k] = q[k],
         r[Len(q)] = q[Len(q)] + 1
  PROVE  Before(p, r) <=> Before(p, q) \/ (Len(p) >= Len(q) /\ Begins(p, Len(q), q))
<1> DEFINE n == Len(q)
           m == Len(p)
<1>1. /\ n \in Nat \ {0} /\ m \in Nat \ {0} /\ q[n] \in Nat
      /\ \A k \in 1..m : p[k] \in Nat
  BY PositionTypes
<1>2. Before(p, r) <=> \/ \E k \in 1..m : k <= n /\ Parting(p, r, k)
                       \/ m < n /\ Begins(p, m, r)
  BY BeforeCases
<1>3. Before(p, q) <=> \/ \E k \in 1..m : k <= n /\ Parting(p, q, k)
                       \/ m < n /\ Begins(p, m, q)
  BY BeforeCases
<1>a. \A k \in 1..(n - 1) : r[k] = q[k] OBVIOUS
<1>b. r[n] = q[n] + 1 OBVIOUS
<1> HIDE DEF n, m
<1>4. ASSUME NEW k \in 1..m, k < n PROVE Parting(p, r, k) <=> Parting(p, q, k)
  <2>1. k \in 1..(n - 1) /\ \A l \in 1..(k - 1) : l \in 1..(n - 1) BY <1>1, <1>4
  <2> QED BY <1>a, <2>1 DEF Parting
<1>5. m < n => (Begins(p, m, r) <=> Begins(p, m, q))
  <2>1. m < n => \A l \in 1..m : l \in 1..(n - 1) BY <1>1
  <2> QED BY <1>a, <2>1 DEF Begins
<1>6. n <= m => (Parting(p, r, n) <=> Parting(p, q, n) \/ Begins(p, n, q))
  <2>1. n <= m => (p[n] < q[n] + 1 <=> p[n] < q[n] \/ p[n] = q[n])
    <3>1. ASSUME n <= m PROVE p[n] \in Nat /\ q[n] \in Nat BY ONLY <1>1, <3>1
    <3>2. \A x, y \in Nat : x < y + 1 <=> x < y \/ x = y OBVIOUS
    <3> QED BY ONLY <3>1, <3>2, Zenon
  <2>2. \A l \in 1..n : l = n \/ l \in 1..(n - 1) BY <1>1
  <2>3. n \in 1..n /\ \A l \in 1..(n - 1) : l \in 1..n BY <1>1
  <2>4. Begins(p, n, q) <=> p[n] = q[n] /\ \A l \in 1..(n - 1) : p[l] = q[l]
    BY <2>2, <2>3 DEF Begins
  <2> QED BY <1>a, <1>b, <2>1, <2>4 DEF Parting
<1>7. \A k \in 1..m : k <= n <=> k < n \/ (k = n /\ n <= m) BY <1>1
<1>8. n <= m => n \in 1..m BY <1>1
<1>9. (\E k \in 1..m : k <= n /\ Parting(p, r, k))
        <=> (\E k \in 1..m : k < n /\ Parting(p, q, k)) \/ (n <= m /\ Parting(p, r, n))
  BY <1>4, <1>7, <1>8
<1>10. (\E k \in 1..m : k <= n /\ Parting(p, q, k))
         <=> (\E k \in 1..m : k < n /\ Parting(p, q, k)) \/ (n <= m /\ Parting(p, q, n))
  BY <1>7, <1>8
<1>11. m >= n <=> n <= m BY <1>1
<1>12. Before(p, r) <=> Before(p, q) \/ (m >= n /\ Begins(p, n, q))
  BY <1>2, <1>3, <1>5, <1>6, <1>9, <1>10, <1>11
<1> QED BY <1>12 DEF n, m

LEMMA BeforeInto ==
  ASSUME NEW p \in Positions, NEW q \in Positions, NEW r \in Positions,
         Len(r) = Len(q) + 1, \A k \in 1..Len(q) : r[k] = q[k], r[Len(q) + 1] = 1
  PROVE  Before(p, r) <=> Before(p, q) \/ p = q
<1> DEFINE n == Len(q)
           m == Len(p)
<1>1. /\ n \in Nat \ {0} /\ m \in Nat \ {0}
      /\ \A k \in 1..m : p[k] \in Nat \ {0}
  BY PositionTypes
<1>2. Before(p, r) <=> \/ \E k \in 1..m : k <= n + 1 /\ Parting(p, r, k)
                       \/ m < n + 1 /\ Begins(p, m, r)
  BY BeforeCases
<1>3. Before(p, q) <=> \/ \E k \in 1..m : k <= n /\ Parting(p, q, k)
                       \/ m < n /\ Begins(p, m, q)
  BY BeforeCases
<1>a. \A k \in 1..n : r[k] = q[k] OBVIOUS
<1>b. r[n + 1] = 1 OBVIOUS
<1>c. p = q <=> m = n /\ Begins(p, n, q)
  BY SamePath DEF Begins
<1> HIDE DEF n, m
<1>4. ASSUME NEW k \in 1..m, k <= n PROVE Parting(p, r, k) <=> Parting(p, q, k)
  <2>1. k \in 1..n /\ \A l \in 1..(k - 1) : l \in 1..n BY <1>1, <1>4
  <2> QED BY <1>a, <2>1 DEF Parting
<1>5. m <= n => (Begins(p, m, r) <=> Begins(p, m, q))
  <2>1. m <= n => \A l \in 1..m : l \in 1..n BY <1>1
  <2> QED BY <1>a, <2>1 DEF Begins
<1>6. n + 1 \in 1..m => ~Parting(p, r, n + 1)
  BY <1>1, <1>b DEF Parting
<1>7. \A k \in 1..m : k <= n + 1 <=> k <= n \/ k = n + 1 BY <1>1
<1>8. m < n + 1 <=> m < n \/ m = n BY <1>1
<1>9. m < n => m <= n BY <1>1
<1>10. (\E k \in 1..m : k <= n + 1 /\ Parting(p, r, k))
         <=> (\E k \in 1..m : k <= n /\ Parting(p, q, k))
  BY <1>4, <1>6, <1>7
<1>11. m <= n <=> m < n \/ m = n BY <1>1
<1> QED BY <1>2, <1>3, <1>5, <1>8, <1>9, <1>10, <1>11, <1>c

LEMMA BeforeOut ==
  ASSUME NEW p \in Positions, NEW q \in Positions, NEW r \in Positions,
         Len(q) >= 2, Len(r) = Len(q) - 1, \A k \in 1..(Len(q) - 2) : r[k] = q[k],
         r[Len(q) - 1] = q[Len(q) - 1] + 1
  PROVE  Before(p, r) <=> \/ Before(p, q)
                          \/ /\ Len(p) >= Len(q) /\ Begins(p, Len(q) - 1, q)
                             /\ p[Len(q)] >= q[Len(q)]
<1> DEFINE n == Len(q) - 1
           m == Len(p)
<1>1. /\ n \in Nat \ {0} /\ m \in Nat \ {0} /\ q[n] \in Nat /\ q[n + 1] \in Nat
      /\ \A k \in 1..m : p[k] \in Nat
  BY PositionTypes
<1>2. Before(p, r) <=> \/ \E k \in 1..m : k <= n /\ Parting(p, r, k)
                       \/ m < n /\ Begins(p, m, r)
  BY BeforeCases
<1>z. n + 1 = Len(q) /\ n - 1 = Len(q) - 2
  <2>1. Len(q) \in Nat BY PositionTypes
  <2> QED BY <2>1
<1>3. Before(p, q) <=> \/ \E k \in 1..m : k <= n + 1 /\ Parting(p, q, k)
                       \/ m < n + 1 /\ Begins(p, m, q)
  BY <1>z, BeforeCases
<1>a. \A k \in 1..(n - 1) : r[k] = q[k] BY <1>z
<1>b. r[n] = q[n] + 1 OBVIOUS
<1> HIDE DEF n, m
<1>4. ASSUME NEW k \in 1..m, k < n PROVE Parting(p, r, k) <=> Parting(p, q, k)
  <2>1. k \in 1..(n - 1) /\ \A l \in 1..(k - 1) : l \in 1..(n - 1) BY <1>1, <1>4
  <2> QED BY <1>a, <2>1 DEF Parting
<1>5. m < n => (Begins(p, m, r) <=> Begins(p, m, q))
  <2>1. m < n => \A l \in 1..m : l \in 1..(n - 1) BY <1>1
  <2> QED BY <1>a, <2>1 DEF Begins
<1>6. n <= m => (Parting(p, r, n) <=> Parting(p, q, n) \/ Begins(p, n, q))
  <2>1. n <= m => (p[n] < q[n] + 1 <=> p[n] < q[n] \/ p[n] = q[n])
    <3>1. ASSUME n <= m PROVE p[n] \in Nat /\ q[n] \in Nat BY ONLY <1>1, <3>1
    <3>2. \A x, y \in Nat : x < y + 1 <=> x < y \/ x = y OBVIOUS
    <3> QED BY ONLY <3>1, <3>2, Zenon
  <2>2. \A l \in 1..n : l = n \/ l \in 1..(n - 1) BY <1>1
  <2>3. n \in 1..n /\ \A l \in 1..(n - 1) : l \in 1..n BY <1>1
  <2>4. Begins(p, n, q) <=> p[n] = q[n] /\ \A l \in 1..(n - 1) : p[l] = q[l]
    BY <2>2, <2>3 DEF Begins
  <2> QED BY <1>a, <1>b, <2>1, <2>4 DEF Parting
<1>7. n + 1 <= m => (Parting(p, q, n + 1) <=> Begins(p, n, q) /\ ~(p[n + 1] >= q[n + 1]))
  <2>1. n + 1 <= m => (p[n + 1] < q[n + 1] <=> ~(p[n + 1] >= q[n + 1])) BY <1>1
  <2>2. (n + 1) - 1 = n BY <1>1
  <2> QED BY <2>1, <2>2 DEF Parting, Begins
<1>8. \A k \in 1..m : /\ k <= n <=> k < n \/ (k = n /\ n <= m)
                      /\ k <= n + 1 <=> k < n \/ (k = n /\ n <= m) \/ (k = n + 1 /\ n + 1 <= m)
  BY <1>1
<1>9. (n <= m => n \in 1..m) /\ (n + 1 <= m => n + 1 \in 1..m) BY <1>1
<1>10. (\E k \in 1..m : k <= n /\ Parting(p, r, k))
         <=> (\E k \in 1..m : k < n /\ Parting(p, q, k)) \/ (n <= m /\ Parting(p, r, n))
  BY <1>4, <1>8, <1>9
<1>11. (\E k \in 1..m : k <= n + 1 /\ Parting(p, q, k))
         <=> \/ (\E k \in 1..m : k < n /\ Parting(p, q, k)) \/ (n <= m /\ Parting(p, q, n))
             \/ (n + 1 <= m /\ Parting(p, q, n + 1))
  BY <1>8, <1>9
<1>12. /\ m < n + 1 <=> m < n \/ m = n
       /\ n <= m <=> m = n \/ n + 1 <= m
       /\ m >= n + 1 <=> n + 1 <= m
  BY <1>1
<1>13. Before(p, r) <=> \/ Before(p, q)
                        \/ m >= n + 1 /\ Begins(p, n, q) /\ p[n + 1] >= q[n + 1]
  BY <1>2, <1>3, <1>5, <1>6, <1>7, <1>10, <1>11, <1>12
<1> QED BY <1>13, <1>z DEF n, m

-----------------------------------------------------------------------------
(* Where the dump is *)

PathOf(hs) == [k \in 1..Len(hs) |-> hs[k].next]

\* The hashes lead from the arguments to where the dump is, each in an element of the
\* one before; and any path that agrees with theirs so far leads through their tables.
Linked(hs) ==
  /\ hs[1].of = Arguments
  /\ \A k \in 2..Len(hs) : /\ hs[k - 1].next \in DOMAIN heap[hs[k - 1].of]
                           /\ hs[k].of = heap[hs[k - 1].of][hs[k - 1].next]
  /\ \A k \in 1..Len(hs) : hs[k].depth = k - 1
Follows(hs) ==
  \A p \in Positions : \A tables \in [DOMAIN p -> Tables] : Through(p, tables) =>
    \A k \in 1..Len(p) : k <= Len(hs) /\ Begins(p, k - 1, PathOf(hs)) => tables[k] = hs[k].of

InOrder(s) == \A i, j \in DOMAIN s : i < j => Before(s[i], s[j])
UpTo(s, q) == /\ ToSet(s) \subseteq Positions /\ InOrder(s)
              /\ \A p \in Positions : p \in ToSet(s) <=> Visible(p) /\ Before(p, q)
All(s) == /\ ToSet(s) \subseteq Positions /\ InOrder(s)
          /\ \A p \in Positions : p \in ToSet(s) <=> Visible(p)

\* The only trace, without marks of an earlier one.
Sole == Len(walks) = 1 /\ leaked = {} /\ dump_max_depth <= CharMax
Dumped ==
  Sole => /\ W.at = "args" => Linked(Hashes) /\ Follows(Hashes) /\ UpTo(W.shown, Path)
          /\ W.at = "site" /\ frames[W.call].kind # "dummy" => All(W.shown)

LEMMA PathTypes ==
  ASSUME NEW hs \in Seq(Hash), hs # <<>>
  PROVE  /\ PathOf(hs) \in Positions /\ Len(PathOf(hs)) = Len(hs)
         /\ Len(hs) \in Nat \ {0}
         /\ \A k \in 1..Len(hs) : PathOf(hs)[k] = hs[k].next /\ hs[k] \in Hash
<1>1. Len(hs) \in Nat \ {0} /\ \A k \in 1..Len(hs) : hs[k] \in Hash
  BY LenProperties, EmptySeq, ElementOfSeq
<1>2. \A k \in 1..Len(hs) : hs[k].next \in Nat \ {0} BY <1>1 DEF Hash
<1>3. PathOf(hs) \in Seq(Nat \ {0}) /\ Len(PathOf(hs)) = Len(hs)
  BY <1>1, <1>2 DEF PathOf
<1>4. PathOf(hs) # <<>> BY <1>1, <1>3
<1> QED BY <1>1, <1>3, <1>4 DEF Positions, PathOf

\* One more value is shown.
LEMMA ShowOne ==
  ASSUME NEW s \in Seq(Seq(Nat)), NEW q \in Positions, UpTo(s, q), q \in Seq(Nat)
  PROVE  LET t == Append(s, q) IN
         ToSet(t) = ToSet(s) \union {q} /\ InOrder(t) /\ ToSet(t) \subseteq Positions
<1> DEFINE t == Append(s, q)
<1>1. /\ t \in Seq(Seq(Nat)) /\ Len(t) = Len(s) + 1 /\ t[Len(s) + 1] = q
      /\ \A k \in 1..Len(s) : t[k] = s[k]
  BY AppendProperties
<1>2. Len(s) \in Nat /\ DOMAIN s = 1..Len(s) /\ DOMAIN t = 1..(Len(s) + 1)
  BY <1>1, LenProperties
<1> HIDE DEF t
<1>3. /\ \A k \in DOMAIN t : k = Len(s) + 1 \/ k \in DOMAIN s
      /\ \A k \in DOMAIN s : k \in DOMAIN t /\ t[k] = s[k] /\ k # Len(s) + 1
      /\ Len(s) + 1 \in DOMAIN t
  BY <1>1, <1>2
<1>4. ToSet(t) = ToSet(s) \union {q}
  BY <1>1, <1>3 DEF ToSet
<1>5. ASSUME NEW i \in DOMAIN t, NEW j \in DOMAIN t, i < j PROVE Before(t[i], t[j])
  <2>1. i \in DOMAIN s BY <1>2, <1>5
  <2>2. CASE j \in DOMAIN s BY <1>3, <1>5, <2>1, <2>2 DEF UpTo, InOrder
  <2>3. CASE j = Len(s) + 1
    <3>1. s[i] \in ToSet(s) /\ s[i] \in Positions BY <2>1 DEF ToSet, UpTo
    <3>2. Before(s[i], q) BY <3>1 DEF UpTo
    <3> QED BY <1>1, <1>3, <2>1, <2>3, <3>2
  <2> QED BY <1>3, <2>2, <2>3
<1>6. InOrder(t) BY <1>5 DEF InOrder
<1>7. ToSet(t) \subseteq Positions BY <1>4 DEF UpTo
<1> QED BY <1>4, <1>6, <1>7 DEF t

\* The state of a dump, as the steps find it.
LEMMA DumpState ==
  ASSUME Typed, Marks, Dumped, Sole, Dumping
  PROVE  /\ Hashes \in Seq(Hash) /\ Hashes # <<>> /\ Len(Hashes) \in Nat \ {0}
         /\ W.shown \in Seq(Seq(Nat)) /\ W \in Walk /\ walks # <<>> /\ W.at = "args"
         /\ Path \in Positions /\ Path = PathOf(Hashes) /\ Len(Path) = Len(Hashes)
         /\ \A k \in 1..Len(Hashes) : Path[k] = Hashes[k].next /\ Hashes[k] \in Hash
         /\ Linked(Hashes) /\ Follows(Hashes) /\ UpTo(W.shown, Path)
         /\ Innermost = Hashes[Len(Hashes)] /\ Innermost.depth = Len(Hashes) - 1
         /\ TooDeep <=> Len(Hashes) - 1 >= dump_max_depth
         /\ dump_max_depth \in Int
         /\ heap \in [Tables -> Seq(Containers \union {Leaf})]
         /\ \A c \in Containers : guard[c] = 1 <=> c \in Active(W)
         /\ guard \in [Containers -> 0..1]
<1>1. walks # <<>> /\ W.at = "args" BY DEF Dumping, Walking
<1>2. /\ Hashes \in Seq(Hash) /\ W.shown \in Seq(Seq(Nat)) /\ W \in Walk
      /\ Hashes # <<>>
  BY <1>1, Outermost, InnermostHash
<1>3. Path = PathOf(Hashes) BY DEF Path, PathOf
<1>4. Linked(Hashes) /\ Follows(Hashes) /\ UpTo(W.shown, Path)
  BY <1>1 DEF Dumped
<1>5. Len(Hashes) \in Nat \ {0} /\ Len(Hashes) \in 1..Len(Hashes) BY <1>2, PathTypes
<1>6. Innermost = Hashes[Len(Hashes)] /\ Innermost.depth = Len(Hashes) - 1
  BY <1>4, <1>5 DEF Innermost, Linked
<1>7. /\ dump_max_depth \in Int /\ guard \in [Containers -> 0..1]
      /\ heap \in [Tables -> Seq(Containers \union {Leaf})]
  BY BacktraceAssumption DEF Typed, TypeOK
<1>8. \A c \in Containers : guard[c] = 1 <=> c \in Active(W)
  <2>1. DOMAIN walks = {1}
    <3>1. walks \in Seq(Walk) BY DEF Typed, TypeOK
    <3>2. DOMAIN walks = 1..1 BY <3>1, LenProperties DEF Sole
    <3> QED BY <3>2
  <2> QED BY <2>1 DEF Marks, GuardsHeld, Sole, W
<1> QED BY <1>1, <1>2, <1>3, <1>4, <1>5, <1>6, <1>7, <1>8, PathTypes DEF TooDeep

\* A path through the element that the dump is at goes on in its value; one through the
\* innermost table goes on in one of its elements.
LEMMA GoesOn ==
  ASSUME Typed, Marks, Dumped, Sole, Dumping, NEW p \in Positions, Visible(p)
  PROVE  /\ Len(p) <= dump_max_depth
         /\ Len(p) >= Len(Path) /\ Begins(p, Len(Path) - 1, Path)
              => p[Len(Path)] \in DOMAIN Elements
         /\ Len(p) > Len(Path) /\ Begins(p, Len(Path), Path)
              => Value \in Tables /\ \A k \in 1..Len(Path) : Value # Hashes[k].of
<1> DEFINE n == Len(Hashes)
           m == Len(p)
<1>1. /\ Follows(Hashes) /\ n \in Nat \ {0} /\ Len(Path) = n /\ Path = PathOf(Hashes)
      /\ Path[n] = Hashes[n].next /\ Innermost = Hashes[n]
  BY DumpState
<1>2. m \in Nat \ {0} /\ DOMAIN p = 1..m BY PositionTypes
<1>3. PICK tables \in [DOMAIN p -> Tables] : Through(p, tables)
  BY DEF Visible
<1>4. \A k \in 1..m : k <= n /\ Begins(p, k - 1, Path) => tables[k] = Hashes[k].of
  BY <1>1, <1>3 DEF Follows
<1> HIDE DEF n, m
<1>5. ASSUME m >= n, Begins(p, n - 1, Path)
      PROVE  p[n] \in DOMAIN Elements
  <2>1. n \in 1..m /\ n <= n BY <1>1, <1>2, <1>5
  <2>2. tables[n] = Innermost.of BY <1>1, <1>4, <1>5, <2>1
  <2>3. p[n] \in DOMAIN heap[tables[n]] BY <1>2, <1>3, <2>1 DEF Through
  <2> QED BY <2>2, <2>3 DEF Elements
<1>6. ASSUME m > n, Begins(p, n, Path)
      PROVE  Value \in Tables /\ \A k \in 1..n : Value # Hashes[k].of
  <2>1. n \in 1..m /\ n + 1 \in 1..m /\ n + 1 \in 2..m /\ (n + 1) - 1 = n
        /\ \A k \in 1..n : k \in 1..m /\ k <= n /\ k # n + 1
                           /\ \A l \in 1..(k - 1) : l \in 1..n
    BY <1>1, <1>2, <1>6
  <2>2. \A k \in 1..n : tables[k] = Hashes[k].of
    BY <1>4, <1>6, <2>1 DEF Begins
  <2>3. p[n] = Innermost.next BY <1>1, <1>6, <2>1 DEF Begins
  <2>4. tables[n + 1] = heap[tables[n]][p[n]]
    BY <1>2, <1>3, <2>1 DEF Through, m
  <2>5. tables[n + 1] = Value
    <3>1. n \in 1..n BY <1>1
    <3> QED BY <1>1, <2>2, <2>3, <2>4, <3>1 DEF Value, Elements
  <2>6. Value \in Tables BY <1>2, <1>3, <2>1, <2>5
  <2>7. \A k \in 1..n : tables[k] # tables[n + 1]
    BY <1>2, <1>3, <2>1 DEF Through
  <2> QED BY <2>2, <2>5, <2>6, <2>7
<1> QED BY <1>1, <1>5, <1>6 DEF n, m, Visible

\* What the dump is at is visible when it is shown.
LEMMA ShownIsVisible ==
  ASSUME Typed, Marks, Dumped, Sole, Showing
  PROVE  Visible(Path) /\ Path[Len(Path)] \in DOMAIN Elements
<1>0. Dumping /\ ~Exhausted /\ ~TooDeep BY DEF Showing
<1> DEFINE n == Len(Hashes)
<1>1. /\ n \in Nat \ {0} /\ Path \in Positions /\ Len(Path) = n /\ Linked(Hashes)
      /\ \A k \in 1..n : Path[k] = Hashes[k].next /\ Hashes[k] \in Hash
      /\ Innermost = Hashes[n] /\ ~(n - 1 >= dump_max_depth) /\ dump_max_depth \in Int
      /\ heap \in [Tables -> Seq(Containers \union {Leaf})] /\ W \in Walk /\ walks # <<>>
  BY <1>0, DumpState
<1>2. DOMAIN Path = 1..n BY <1>1, PositionTypes
<1>3. Path[n] \in DOMAIN Elements
  <2>1. Elements \in Seq(Containers \union {Leaf}) /\ Innermost.next \in Nat \ {0}
    BY <1>0, <1>1, InnermostHash DEF Elements
  <2>2. n \in 1..n BY <1>1
  <2> QED BY <1>0, <1>1, <2>1, <2>2, LenProperties DEF Exhausted
<1>4. Distinct(W) /\ Shaped(W)
  BY <1>1, Outermost DEF Marks, W
<1> DEFINE tables == [k \in 1..n |-> Hashes[k].of]
<1>5. tables \in [1..n -> Tables] BY <1>1 DEF Hash
<1>6. tables[1] = Arguments BY <1>1 DEF Linked
<1>7. \A k \in 2..n : /\ k \in 1..n /\ k - 1 \in 1..n /\ tables[k] = Hashes[k].of
                      /\ tables[k - 1] = Hashes[k - 1].of /\ Path[k - 1] = Hashes[k - 1].next
                      /\ Hashes[k].of \in Containers
  <2>1. \A k \in 2..n : k \in 1..n /\ k - 1 \in 1..n BY <1>1
  <2> QED BY <1>1, <1>4, <2>1 DEF Shaped, Hashes
<1>8. \A k \in 2..n : tables[k] = heap[tables[k - 1]][Path[k - 1]]
  BY <1>1, <1>7 DEF Linked
<1>9. ASSUME NEW k \in 1..n PROVE Path[k] \in DOMAIN heap[tables[k]]
  <2>1. CASE k = n BY <1>1, <1>3, <2>1 DEF Elements
  <2>2. CASE k # n
    <3>1. k + 1 \in 2..n /\ (k + 1) - 1 = k BY <1>1, <2>2
    <3>2. Hashes[k].next \in DOMAIN heap[Hashes[k].of] BY <1>1, <3>1 DEF Linked
    <3> QED BY <1>1, <3>2
  <2> QED BY <2>1, <2>2
<1>10. \A k, l \in 1..n : tables[k] = tables[l] => k = l
  <2>1. Arguments \notin Containers BY BacktraceAssumption
  <2>2. \A k \in 1..n : k = 1 \/ k \in 2..n BY <1>1
  <2>3. \A k, l \in 2..n : Hashes[k].of = Hashes[l].of => k = l
    BY <1>4 DEF Distinct, Hashes
  <2> HIDE DEF n, tables
  <2> QED BY <1>6, <1>7, <2>1, <2>2, <2>3
<1>11. Through(Path, tables)
  <2> HIDE DEF n, tables
  <2> QED BY <1>1, <1>2, <1>6, <1>8, <1>9, <1>10 DEF Through
<1>12. n <= dump_max_depth BY <1>1
<1> QED BY <1>1, <1>2, <1>3, <1>5, <1>11, <1>12 DEF Visible

-----------------------------------------------------------------------------
(* The steps of a dump *)

\* The next element of the innermost table.
LEMMA NextElement ==
  ASSUME NEW hs \in Seq(Hash), hs # <<>>, Linked(hs), Follows(hs)
  PROVE  LET r == Advance(hs) IN
         /\ r \in Seq(Hash) /\ r # <<>> /\ Len(r) = Len(hs) /\ Linked(r) /\ Follows(r)
         /\ \A k \in 1..(Len(hs) - 1) : PathOf(r)[k] = PathOf(hs)[k]
         /\ PathOf(r)[Len(hs)] = PathOf(hs)[Len(hs)] + 1
<1> DEFINE r == Advance(hs)
           n == Len(hs)
<1>1. /\ r \in Seq(Hash) /\ r # <<>> /\ Len(r) = n
      /\ \A k \in 1..n : r[k].of = hs[k].of
  BY AdvanceOf
<1>2. /\ n \in Nat \ {0} /\ n \in 1..n /\ hs \in [1..n -> Hash]
      /\ \A k \in 1..n : PathOf(hs)[k] = hs[k].next /\ PathOf(r)[k] = r[k].next
  BY <1>1, PathTypes
<1>3. r = [hs EXCEPT ![n] = [hs[n] EXCEPT !.next = @ + 1]]
  BY DEF Advance
<1> HIDE DEF r, n
<1>4. /\ \A k \in 1..(n - 1) : k \in 1..n /\ r[k] = hs[k]
      /\ r[n].next = hs[n].next + 1 /\ r[n].depth = hs[n].depth
  BY <1>2, <1>3 DEF Hash
<1>5. \A k \in 1..n : k = n \/ k \in 1..(n - 1) BY <1>2
<1>6. Linked(r)
  <2>1. \A k \in 2..n : k \in 1..n /\ k - 1 \in 1..(n - 1) BY <1>2
  <2>2. \A k \in 1..n : r[k].depth = hs[k].depth BY <1>4, <1>5
  <2>3. 1 \in 1..n BY <1>2
  <2> QED BY <1>1, <1>4, <2>1, <2>2, <2>3 DEF Linked, n
<1>7. Follows(r)
  <2> SUFFICES ASSUME NEW p \in Positions, NEW tables \in [DOMAIN p -> Tables],
                      Through(p, tables), NEW k \in 1..Len(p), k <= n,
                      Begins(p, k - 1, PathOf(r))
               PROVE  tables[k] = r[k].of
    BY <1>1 DEF Follows
  <2>1. Len(p) \in Nat BY PositionTypes
  <2>2. \A l \in 1..(k - 1) : l \in 1..(n - 1) BY <1>2, <2>1
  <2>3. Begins(p, k - 1, PathOf(hs))
    BY <1>2, <1>4, <2>2 DEF Begins
  <2>4. k \in 1..n BY <1>2, <2>1
  <2> QED BY <1>1, <2>3, <2>4 DEF Follows, n
<1>8. /\ \A k \in 1..(n - 1) : PathOf(r)[k] = PathOf(hs)[k]
      /\ PathOf(r)[n] = PathOf(hs)[n] + 1
  BY ONLY <1>2, <1>4
<1> QED BY ONLY <1>1, <1>6, <1>7, <1>8, Zenon DEF r, n

\* Back in the table before the innermost one.
LEMMA TableBefore ==
  ASSUME NEW hs \in Seq(Hash), Len(hs) >= 2, Linked(hs), Follows(hs)
  PROVE  LET f == Front(hs) IN
         /\ f \in Seq(Hash) /\ f # <<>> /\ Len(f) = Len(hs) - 1 /\ Linked(f) /\ Follows(f)
         /\ \A k \in 1..(Len(hs) - 1) : PathOf(f)[k] = PathOf(hs)[k]
<1> DEFINE f == Front(hs)
           n == Len(hs) - 1
<1>1. f \in Seq(Hash) /\ f # <<>> /\ Len(f) = n /\ \A k \in 1..n : f[k] = hs[k]
  BY FrontOf
<1>2. n \in Nat \ {0} /\ Len(hs) = n + 1
  <2>1. Len(hs) \in Nat BY LenProperties
  <2>2. \A m \in Nat : m >= 2 => m - 1 \in Nat \ {0} /\ m = (m - 1) + 1 OBVIOUS
  <2> QED BY <2>1, <2>2, Zenon
<1>3. hs # <<>> BY <1>2
<1>4. \A k \in 1..n : PathOf(f)[k] = PathOf(hs)[k]
  <2>1. \A k \in 1..n : k \in 1..Len(hs) BY <1>2
  <2>2. \A k \in 1..n : PathOf(f)[k] = f[k].next BY <1>1, PathTypes
  <2>3. \A k \in 1..Len(hs) : PathOf(hs)[k] = hs[k].next BY <1>3, PathTypes
  <2> QED BY ONLY <1>1, <2>1, <2>2, <2>3
<1> HIDE DEF f, n
<1>5. Linked(f)
  <2>1. /\ 1 \in 1..n /\ \A k \in 1..n : k \in 1..(n + 1)
        /\ \A k \in 2..n : k \in 2..(n + 1) /\ k \in 1..n /\ k - 1 \in 1..n
    BY <1>2
  <2> QED BY <1>1, <1>2, <2>1 DEF Linked
<1>6. Follows(f)
  <2> SUFFICES ASSUME NEW p \in Positions, NEW tables \in [DOMAIN p -> Tables],
                      Through(p, tables), NEW k \in 1..Len(p), k <= n,
                      Begins(p, k - 1, PathOf(f))
               PROVE  tables[k] = f[k].of
    BY <1>1 DEF Follows
  <2>1. Len(p) \in Nat BY PositionTypes
  <2>2. k \in 1..n /\ k <= Len(hs) /\ \A l \in 1..(k - 1) : l \in 1..n BY <1>2, <2>1
  <2>3. Begins(p, k - 1, PathOf(hs)) BY <1>4, <2>2 DEF Begins
  <2> QED BY <1>1, <2>2, <2>3 DEF Follows
<1> QED BY <1>1, <1>4, <1>5, <1>6 DEF f, n

\* Into the value at the element the dump is at.
LEMMA IntoValue ==
  ASSUME NEW hs \in Seq(Hash), hs # <<>>, Linked(hs), Follows(hs), NEW h \in Hash,
         hs[Len(hs)].next \in DOMAIN heap[hs[Len(hs)].of],
         h.of = heap[hs[Len(hs)].of][hs[Len(hs)].next], h.next = 1, h.depth = Len(hs)
  PROVE  LET r == Append(hs, h) IN
         /\ r \in Seq(Hash) /\ r # <<>> /\ Len(r) = Len(hs) + 1 /\ Linked(r) /\ Follows(r)
         /\ \A k \in 1..Len(hs) : PathOf(r)[k] = PathOf(hs)[k]
         /\ PathOf(r)[Len(hs) + 1] = 1
<1> DEFINE r == Append(hs, h)
           n == Len(hs)
<1>1. /\ r \in Seq(Hash) /\ Len(r) = n + 1 /\ r[n + 1] = h /\ \A k \in 1..n : r[k] = hs[k]
  BY AppendProperties
<1>2. n \in Nat \ {0} BY PathTypes
<1>3. r # <<>>
  <2> HIDE DEF r
  <2> QED BY <1>1, <1>2
<1>4. /\ \A k \in 1..n : PathOf(r)[k] = PathOf(hs)[k]
      /\ PathOf(r)[n + 1] = 1
  <2>1. n + 1 \in 1..(n + 1) /\ \A k \in 1..n : k \in 1..(n + 1) BY <1>2
  <2>2. /\ \A k \in 1..(n + 1) : PathOf(r)[k] = r[k].next
        /\ \A k \in 1..n : PathOf(hs)[k] = hs[k].next
    BY <1>1, <1>3, PathTypes
  <2> HIDE DEF r, n
  <2> QED BY <1>1, <2>1, <2>2
<1>a. /\ hs[n].next \in DOMAIN heap[hs[n].of]
      /\ h.of = heap[hs[n].of][hs[n].next] /\ h.depth = n
  OBVIOUS
<1> HIDE DEF r, n
<1>5. Linked(r)
  <2>1. /\ 1 \in 1..n /\ \A k \in 1..(n + 1) : k = n + 1 \/ k \in 1..n
        /\ \A k \in 2..(n + 1) : (k = n + 1 /\ k - 1 = n) \/ k \in 2..n
        /\ \A k \in 2..n : k \in 1..n /\ k - 1 \in 1..n
        /\ n \in 1..n /\ (n + 1) - 1 = n
    BY <1>2
  <2>2. /\ r[1].of = Arguments
        /\ \A k \in 2..n : /\ r[k - 1].next \in DOMAIN heap[r[k - 1].of]
                           /\ r[k].of = heap[r[k - 1].of][r[k - 1].next]
        /\ \A k \in 1..n : r[k].depth = k - 1
    BY <1>1, <2>1 DEF Linked, n
  <2>3. /\ r[n].next \in DOMAIN heap[r[n].of]
        /\ r[n + 1].of = heap[r[n].of][r[n].next] /\ r[n + 1].depth = (n + 1) - 1
    BY <1>1, <1>a, <2>1
  <2>4. \A k \in 2..(n + 1) : /\ r[k - 1].next \in DOMAIN heap[r[k - 1].of]
                              /\ r[k].of = heap[r[k - 1].of][r[k - 1].next]
    BY <2>1, <2>2, <2>3
  <2>5. \A k \in 1..(n + 1) : r[k].depth = k - 1
    BY <2>1, <2>2, <2>3
  <2> QED BY <1>1, <2>2, <2>4, <2>5 DEF Linked
<1>6. Follows(r)
  <2> SUFFICES ASSUME NEW p \in Positions, NEW tables \in [DOMAIN p -> Tables],
                      Through(p, tables), NEW k \in 1..Len(p), k <= n + 1,
                      Begins(p, k - 1, PathOf(r))
               PROVE  tables[k] = r[k].of
    BY <1>1 DEF Follows
  <2>1. Len(p) \in Nat /\ DOMAIN p = 1..Len(p) BY PositionTypes
  <2>2. \A l \in 1..(k - 1) : l \in 1..n BY <1>2, <2>1
  <2>3. Begins(p, k - 1, PathOf(hs)) BY <1>4, <2>2 DEF Begins
  <2>a. n \in Nat \ {0} /\ k <= n + 1 /\ k \in 1..Len(p) /\ Len(p) \in Nat BY <1>2, <2>1
  <2>4. CASE k <= n
    <3>1. k \in 1..n BY ONLY <2>a, <2>4
    <3> QED BY <1>1, <2>3, <2>4, <3>1 DEF Follows, n
  <2>5. CASE ~(k <= n)
    <3>1. k = n + 1 /\ k - 1 = n /\ n \in 1..Len(p) /\ n <= n /\ n \in 1..n
          /\ k \in 2..Len(p) /\ \A l \in 1..(n - 1) : l \in 1..n
      BY ONLY <2>a, <2>5
    <3>2. Begins(p, n - 1, PathOf(hs)) BY <2>3, <3>1 DEF Begins
    <3>3. tables[n] = hs[n].of BY <3>1, <3>2 DEF Follows, n
    <3>4. p[n] = PathOf(hs)[n] BY <2>3, <3>1 DEF Begins
    <3>5. PathOf(hs)[n] = hs[n].next BY <3>1, PathTypes DEF n
    <3>6. tables[k] = heap[tables[k - 1]][p[k - 1]] BY <3>1 DEF Through
    <3> QED BY <1>1, <1>a, <3>1, <3>3, <3>4, <3>5, <3>6
  <2> QED BY <2>4, <2>5
<1> QED BY <1>1, <1>3, <1>4, <1>5, <1>6 DEF r, n

-----------------------------------------------------------------------------
(* The dump is complete *)

LEMMA DumpGoesOn ==
  ASSUME NEW walk, W' = walk, UNCHANGED <<heap, dump_max_depth>>, walk.at = "args",
         Linked(walk.hashes), Follows(walk.hashes), UpTo(walk.shown, PathOf(walk.hashes))
  PROVE  Dumped'
<1> DEFINE hs == walk.hashes
           s == walk.shown
<1>1. Linked(hs)' = Linked(hs) BY DEF Linked
<1>2. \A p, tables : Through(p, tables)' = Through(p, tables) BY DEF Through
<1>3. \A p : Visible(p)' <=> Visible(p) BY <1>2 DEF Visible
<1>4. Follows(hs)' <=> Follows(hs) BY <1>2 DEF Follows
<1>5. UpTo(s, PathOf(hs))' <=> UpTo(s, PathOf(hs)) BY <1>3 DEF UpTo, InOrder
<1>6. Hashes' = hs /\ (W.shown)' = s /\ Path' = PathOf(hs) /\ (W.at)' = "args"
  BY DEF Hashes, Path, PathOf
<1> HIDE DEF hs, s
<1>7. Linked(Hashes)' /\ Follows(Hashes)' /\ UpTo(W.shown, Path)'
  BY <1>1, <1>4, <1>5, <1>6 DEF hs, s, Linked, Follows, UpTo, InOrder
<1> QED BY <1>6, <1>7 DEF Dumped

\* One element further, with or without having shown the one that the dump was at.
LEMMA ElementPassed ==
  ASSUME Typed, Marks, Dumped, Sole, CutArgument \/ ShowLeaf \/ Recursion
  PROVE  Dumped'
<1>1. Dumping /\ UNCHANGED <<heap, dump_max_depth>>
  BY DEF CutArgument, ShowLeaf, Recursion, Showing
<1>2. PICK hs : hs = Advance(Hashes) OBVIOUS
<1> DEFINE n == Len(Hashes)
<1>3. /\ hs \in Seq(Hash) /\ hs # <<>> /\ Len(hs) = n /\ Linked(hs) /\ Follows(hs)
      /\ \A k \in 1..(n - 1) : PathOf(hs)[k] = Path[k]
      /\ PathOf(hs)[n] = Path[n] + 1
  BY <1>1, <1>2, DumpState, NextElement
<1>4. /\ PathOf(hs) \in Positions /\ Len(PathOf(hs)) = n /\ Path \in Positions
      /\ Len(Path) = n /\ n \in Nat \ {0}
  BY <1>1, <1>3, DumpState, PathTypes
<1>5. \A p \in Positions : Before(p, PathOf(hs))
                             <=> Before(p, Path) \/ (Len(p) >= n /\ Begins(p, n, Path))
  BY <1>3, <1>4, BeforeNext
<1>6. UpTo(W.shown, Path) /\ W \in Walk /\ walks # <<>> /\ W.at = "args"
      /\ W.shown \in Seq(Seq(Nat))
  BY <1>1, DumpState
<1>7. \A p \in Positions : /\ Len(p) \in Nat
                           /\ Len(p) = n /\ Begins(p, n, Path) => p = Path
                           /\ Begins(Path, n, Path)
  BY <1>4, PositionTypes, SamePath DEF Begins
<1> HIDE DEF n
<1>8. CASE CutArgument
  <2>1. PICK walk : walk = [W EXCEPT !.hashes = hs] OBVIOUS
  <2>2. W' = walk
    <3>1. Update(walk) BY <1>2, <1>8, <2>1 DEF CutArgument, Hashes
    <3> QED BY <1>6, <3>1, OneWalk
  <2>3. walk.at = "args" /\ walk.hashes = hs /\ walk.shown = W.shown
    BY <1>6, <2>1 DEF Walk
  <2>4. \A p \in Positions : ~Visible(p)
    <3>1. n = 1 /\ n - 1 >= dump_max_depth /\ dump_max_depth \in Int
      BY <1>1, <1>8, DumpState DEF CutArgument, InArguments, n
    <3>2. \A p \in Positions : Visible(p) => Len(p) <= dump_max_depth /\ Len(p) \in Nat \ {0}
      BY PositionTypes DEF Visible
    <3> QED BY <3>1, <3>2
  <2>5. UpTo(W.shown, PathOf(hs))
    BY <1>6, <2>4 DEF UpTo
  <2> QED BY <1>1, <1>3, <2>2, <2>3, <2>5, DumpGoesOn
<1>9. CASE ShowLeaf \/ Recursion
  <2>0. Showing BY <1>9 DEF ShowLeaf, Recursion
  <2>1. PICK walk : walk = [W EXCEPT !.hashes = hs, !.shown = Append(W.shown, Path)] OBVIOUS
  <2>2. W' = walk
    <3>1. Update(walk) BY <1>2, <1>9, <2>1 DEF ShowLeaf, Recursion, Hashes
    <3> QED BY <1>6, <3>1, OneWalk
  <2>3. walk.at = "args" /\ walk.hashes = hs /\ walk.shown = Append(W.shown, Path)
    BY <1>6, <2>1 DEF Walk
  <2>4. Path \in Seq(Nat)
    <3>1. Path \in Seq(Nat \ {0}) BY <1>4 DEF Positions
    <3> QED BY <3>1, SeqMonotonic
  <2>5. PICK t : t = Append(W.shown, Path) OBVIOUS
  <2>6. ToSet(t) = ToSet(W.shown) \union {Path} /\ InOrder(t) /\ ToSet(t) \subseteq Positions
    BY <1>4, <1>6, <2>4, <2>5, ShowOne
  <2>7. Visible(Path) BY <2>0, ShownIsVisible
\* The value is a leaf, or a container that is being dumped.
  <2>8. Value \in Tables => \E k \in 1..n : Value = Hashes[k].of
    <3>1. Leaf \notin Tables BY BacktraceAssumption DEF Tables, Leaf, Arguments
    <3>2. CASE ShowLeaf BY <3>1, <3>2 DEF ShowLeaf
    <3>3. CASE Recursion
      <4>1. guard[Value] > 0 /\ Value # Leaf /\ ~Exhausted BY <3>3 DEF Recursion, Showing
      <4>2. Value \in Containers BY <1>1, <4>1, InnermostHash
      <4>3. guard[Value] = 1 /\ guard \in [Containers -> 0..1] => Value \in Active(W)
        BY <1>1, <4>2, DumpState
      <4>4. guard \in [Containers -> 0..1] BY <1>1, DumpState
      <4>5. guard[Value] = 1
        <5>1. guard[Value] \in 0..1 BY <4>2, <4>4
        <5> QED BY <4>1, <5>1
      <4>6. Value \in Active(W) BY <4>3, <4>4, <4>5
      <4>7. \A k \in 2..n : k \in 1..n BY <1>4
      <4> QED BY <4>6, <4>7 DEF Active, Hashes, n
    <3> QED BY <1>9, <3>2, <3>3
  <2>9. ASSUME NEW p \in Positions
        PROVE  p \in ToSet(t) <=> Visible(p) /\ Before(p, PathOf(hs))
    <3>1. Visible(p) /\ Len(p) > n => ~Begins(p, n, Path)
      BY <1>1, <1>4, <2>8, GoesOn DEF n
    <3>2. Len(p) >= n <=> Len(p) > n \/ Len(p) = n BY <1>4, <1>7
    <3>3. p \in ToSet(W.shown) <=> Visible(p) /\ Before(p, Path)
      BY <1>6 DEF UpTo
    <3>4. p = Path <=> Len(p) = n /\ Begins(p, n, Path) BY <1>4, <1>7
    <3> QED BY <1>5, <2>6, <2>7, <3>1, <3>2, <3>3, <3>4
  <2>10. UpTo(t, PathOf(hs))
    BY <2>6, <2>9 DEF UpTo
  <2> QED BY <1>1, <1>3, <2>2, <2>3, <2>5, <2>10, DumpGoesOn
<1> QED BY <1>8, <1>9

\* A table is left: at its end, or because its elements are too deep to be shown.
LEMMA TableLeft ==
  ASSUME Typed, Marks, Dumped, Sole, LeaveHash
  PROVE  Dumped'
<1>1. /\ Dumping /\ ~InArguments /\ (Exhausted \/ TooDeep)
      /\ UNCHANGED <<heap, dump_max_depth>>
  BY DEF LeaveHash
<1> DEFINE n == Len(Hashes)
<1>2. /\ n \in Nat \ {0} /\ Hashes \in Seq(Hash) /\ Linked(Hashes) /\ Follows(Hashes)
      /\ Path = PathOf(Hashes) /\ Path \in Positions /\ Len(Path) = n
      /\ W \in Walk /\ walks # <<>> /\ W.at = "args" /\ UpTo(W.shown, Path)
      /\ (TooDeep <=> n - 1 >= dump_max_depth) /\ dump_max_depth \in Int
      /\ Path[n] = Innermost.next
  BY <1>1, DumpState
<1>3. n >= 2
  <2>1. n # 1 BY <1>1 DEF InArguments
  <2>2. \A m \in Nat \ {0} : m # 1 => m >= 2 OBVIOUS
  <2> QED BY <1>2, <2>1, <2>2, Zenon
<1>4. PICK f : f = Front(Hashes) OBVIOUS
<1>5. /\ f \in Seq(Hash) /\ f # <<>> /\ Len(f) = n - 1 /\ Linked(f) /\ Follows(f)
      /\ \A k \in 1..(n - 1) : PathOf(f)[k] = Path[k]
  BY <1>2, <1>3, <1>4, TableBefore
<1>6. PICK hs : hs = Advance(f) OBVIOUS
<1>7. /\ hs \in Seq(Hash) /\ hs # <<>> /\ Len(hs) = n - 1 /\ Linked(hs) /\ Follows(hs)
      /\ \A k \in 1..(n - 1 - 1) : PathOf(hs)[k] = PathOf(f)[k]
      /\ PathOf(hs)[n - 1] = PathOf(f)[n - 1] + 1
  BY <1>5, <1>6, NextElement
<1>8. PathOf(hs) \in Positions /\ Len(PathOf(hs)) = n - 1 BY <1>7, PathTypes
<1> HIDE DEF n
<1>9. /\ \A k \in 1..(n - 2) : PathOf(hs)[k] = Path[k]
      /\ PathOf(hs)[n - 1] = Path[n - 1] + 1
  <2>1. /\ n - 1 \in 1..(n - 1) /\ n - 1 - 1 = n - 2
        /\ \A k \in 1..(n - 2) : k \in 1..(n - 1)
    BY <1>2, <1>3
  <2> QED BY <1>5, <1>7, <2>1
<1>10. \A p \in Positions : Before(p, PathOf(hs))
         <=> \/ Before(p, Path)
             \/ Len(p) >= n /\ Begins(p, n - 1, Path) /\ p[n] >= Path[n]
  BY <1>2, <1>3, <1>8, <1>9, BeforeOut
<1>11. ASSUME NEW p \in Positions, Visible(p), Len(p) >= n, Begins(p, n - 1, Path),
              p[n] >= Path[n]
       PROVE  FALSE
  <2>1. Len(p) \in Nat /\ Len(p) <= dump_max_depth /\ p[n] \in DOMAIN Elements
    BY <1>1, <1>2, <1>11, GoesOn, PositionTypes
  <2>2. CASE TooDeep BY <1>2, <1>11, <2>1, <2>2
  <2>3. CASE Exhausted
    <3>1. Elements \in Seq(Containers \union {Leaf})
      BY <1>1, DumpState, InnermostHash DEF Elements
    <3>2. p[n] \in 1..Len(Elements) /\ Len(Elements) \in Nat BY <2>1, <3>1, LenProperties
    <3>3. Innermost.next \in Nat BY <1>1, InnermostHash
    <3> QED BY <1>2, <1>11, <2>3, <3>2, <3>3 DEF Exhausted
  <2> QED BY <1>1, <2>2, <2>3
<1>12. UpTo(W.shown, PathOf(hs))
  BY <1>2, <1>10, <1>11 DEF UpTo
<1>13. PICK walk : walk = [W EXCEPT !.hashes = hs] OBVIOUS
<1>14. W' = walk
  <2>1. Update(walk) BY <1>4, <1>6, <1>13 DEF LeaveHash, Hashes
  <2> QED BY <1>2, <2>1, OneWalk
<1>15. walk.at = "args" /\ walk.hashes = hs /\ walk.shown = W.shown
  BY <1>2, <1>13 DEF Walk
<1> QED BY <1>1, <1>7, <1>12, <1>14, <1>15, DumpGoesOn

\* A table is entered, as its first element is the next to be shown.
LEMMA TableEntered ==
  ASSUME Typed, Marks, Dumped, Sole, EnterHash
  PROVE  Dumped'
<1>1. Showing /\ Dumping /\ ~Exhausted /\ ~TooDeep /\ UNCHANGED <<heap, dump_max_depth>>
  BY DEF EnterHash, Showing
<1> DEFINE n == Len(Hashes)
<1>2. /\ n \in Nat \ {0} /\ Hashes \in Seq(Hash) /\ Hashes # <<>>
      /\ Linked(Hashes) /\ Follows(Hashes)
      /\ Path = PathOf(Hashes) /\ Path \in Positions /\ Len(Path) = n
      /\ W \in Walk /\ walks # <<>> /\ W.at = "args" /\ UpTo(W.shown, Path)
      /\ W.shown \in Seq(Seq(Nat))
      /\ (TooDeep <=> n - 1 >= dump_max_depth) /\ dump_max_depth \in Int
      /\ Innermost = Hashes[n] /\ Innermost.depth = n - 1 /\ Path[n] = Hashes[n].next
  BY <1>1, DumpState
<1>3. PICK h : h = [of |-> Value, next |-> 1, depth |-> Deeper(Innermost.depth)] OBVIOUS
<1>4. h.depth = n
  <2>1. Innermost.depth # CharMax
    BY <1>1, <1>2, BacktraceAssumption DEF Sole
  <2> QED BY <1>2, <1>3, <2>1 DEF Deeper
<1>5. Value \in Containers
  BY <1>1, InnermostHash DEF EnterHash
<1>6. h \in Hash /\ h.of = Value /\ h.next = 1
  BY <1>2, <1>3, <1>4, <1>5 DEF Hash, Tables
<1>7. Path[n] \in DOMAIN Elements /\ Visible(Path)
  BY <1>1, <1>2, ShownIsVisible
<1>8. /\ Hashes[n].next \in DOMAIN heap[Hashes[n].of]
      /\ h.of = heap[Hashes[n].of][Hashes[n].next]
  BY <1>2, <1>6, <1>7 DEF Elements, Value
<1>9. PICK hs : hs = Append(Hashes, h) OBVIOUS
<1>10. /\ hs \in Seq(Hash) /\ hs # <<>> /\ Len(hs) = n + 1 /\ Linked(hs) /\ Follows(hs)
       /\ \A k \in 1..n : PathOf(hs)[k] = Path[k]
       /\ PathOf(hs)[n + 1] = 1
  BY <1>2, <1>4, <1>6, <1>8, <1>9, IntoValue
<1>11. PathOf(hs) \in Positions /\ Len(PathOf(hs)) = n + 1 BY <1>10, PathTypes
<1>12. \A p \in Positions : Before(p, PathOf(hs)) <=> Before(p, Path) \/ p = Path
  BY <1>2, <1>10, <1>11, BeforeInto
<1>13. Path \in Seq(Nat)
  <2>1. Path \in Seq(Nat \ {0}) BY <1>2 DEF Positions
  <2> QED BY <2>1, SeqMonotonic
<1>14. PICK t : t = Append(W.shown, Path) OBVIOUS
<1>15. ToSet(t) = ToSet(W.shown) \union {Path} /\ InOrder(t) /\ ToSet(t) \subseteq Positions
  BY <1>2, <1>13, <1>14, ShowOne
<1>16. UpTo(t, PathOf(hs))
  BY <1>2, <1>7, <1>12, <1>15 DEF UpTo
<1>17. PICK walk : walk = [W EXCEPT !.hashes = hs, !.shown = t] OBVIOUS
<1>18. W' = walk
  <2>1. Update(walk) BY <1>3, <1>9, <1>14, <1>17 DEF EnterHash, Hashes
  <2> QED BY <1>2, <2>1, OneWalk
<1>19. walk.at = "args" /\ walk.hashes = hs /\ walk.shown = t
  BY <1>2, <1>17 DEF Walk
<1> QED BY <1>1, <1>10, <1>16, <1>18, <1>19, DumpGoesOn

\* The dump of a call's arguments begins; nothing comes before the first of them.
LEMMA DumpBegins ==
  ASSUME Typed, BeginFrame, frames[W.call].kind # "dummy"
  PROVE  Dumped'
<1>1. walks # <<>> /\ UNCHANGED <<heap, dump_max_depth>> BY DEF BeginFrame, Walking
<1>2. PICK root : root = [of |-> Arguments, next |-> 1, depth |-> 0] OBVIOUS
<1>3. PICK hs : hs = <<root>> OBVIOUS
<1>4. PICK walk : walk = [W EXCEPT !.at = "args", !.hashes = hs, !.shown = <<>>] OBVIOUS
<1>5. Update(walk) BY <1>2, <1>3, <1>4 DEF BeginFrame
<1>6. W' = walk BY <1>1, <1>5, OneWalk
<1>7. walk.at = "args" /\ walk.hashes = hs /\ walk.shown = <<>>
  BY <1>1, <1>4, Outermost DEF Walk
<1>8. root \in Hash /\ root.of = Arguments /\ root.next = 1 /\ root.depth = 0
  BY <1>2 DEF Hash, Tables
<1>9. hs \in Seq(Hash) /\ Len(hs) = 1 /\ hs[1] = root /\ hs # <<>>
  BY <1>3, <1>8
<1>10. PathOf(hs) \in Positions /\ Len(PathOf(hs)) = 1 /\ PathOf(hs)[1] = 1
  BY <1>8, <1>9, PathTypes
<1>11. Linked(hs) BY <1>8, <1>9 DEF Linked
<1>12. Follows(hs)
  <2> SUFFICES ASSUME NEW p \in Positions, NEW tables \in [DOMAIN p -> Tables],
                      Through(p, tables), NEW k \in 1..Len(p), k <= Len(hs)
               PROVE  tables[k] = hs[k].of
    BY DEF Follows
  <2>1. k = 1
    <3>1. Len(p) \in Nat BY PositionTypes
    <3> QED BY <1>9, <3>1
  <2> QED BY <1>8, <1>9, <2>1 DEF Through
<1>13. UpTo(<<>>, PathOf(hs))
  <2>1. ASSUME NEW p \in Positions PROVE ~Before(p, PathOf(hs))
    <3>1. Len(p) \in Nat \ {0} /\ \A k \in 1..Len(p) : p[k] \in Nat \ {0}
      BY PositionTypes
    <3>2. ~(Len(p) < 1) /\ \A k \in 1..Len(p) : k <= 1 => k = 1 /\ ~(p[k] < 1)
      BY <3>1
    <3> QED BY <1>10, <3>2, BeforeCases DEF Parting
  <2>2. ToSet(<<>>) = {} /\ DOMAIN <<>> = {} BY DEF ToSet
  <2> QED BY <2>1, <2>2 DEF UpTo, InOrder
<1> QED BY <1>1, <1>6, <1>7, <1>11, <1>12, <1>13, DumpGoesOn

\* After the last of the arguments everything visible has been shown.
LEMMA DumpEnds ==
  ASSUME Typed, Marks, Dumped, Sole, EndArguments
  PROVE  Dumped'
<1>1. /\ Dumping /\ InArguments /\ Exhausted
      /\ UNCHANGED <<heap, frames, dump_max_depth>>
  BY DEF EndArguments
<1>2. /\ Path \in Positions /\ Len(Path) = 1 /\ Path[1] = Innermost.next
      /\ UpTo(W.shown, Path) /\ W \in Walk /\ walks # <<>>
  <2>1. Len(Hashes) = 1 /\ 1 \in 1..1 BY <1>1 DEF InArguments
  <2> QED BY <1>1, <2>1, DumpState
<1>3. ASSUME NEW p \in Positions, Visible(p) PROVE Before(p, Path)
  <2>1. Len(p) \in Nat \ {0} /\ p[1] \in Nat \ {0} /\ 1 \in 1..Len(p)
    <3>1. Len(p) \in Nat \ {0} BY PositionTypes
    <3>2. 1 \in 1..Len(p) BY <3>1
    <3> QED BY <3>1, <3>2, PositionTypes
  <2>2. Begins(p, 1 - 1, Path) /\ Len(p) >= 1 BY <2>1 DEF Begins
  <2>3. p[1] \in DOMAIN Elements BY <1>1, <1>2, <1>3, <2>2, GoesOn
  <2>4. p[1] < Path[1]
    <3>1. Elements \in Seq(Containers \union {Leaf})
      BY <1>1, DumpState, InnermostHash DEF Elements
    <3>2. p[1] \in 1..Len(Elements) /\ Len(Elements) \in Nat BY <2>3, <3>1, LenProperties
    <3>3. Innermost.next \in Nat BY <1>1, InnermostHash
    <3> QED BY <1>1, <1>2, <3>2, <3>3 DEF Exhausted
  <2>5. Parting(p, Path, 1) BY ONLY <2>4, <2>2 DEF Parting, Begins
  <2>6. Before(p, Path) <=> \/ \E k \in 1..Len(p) : k <= Len(Path) /\ Parting(p, Path, k)
                            \/ Len(p) < Len(Path) /\ Begins(p, Len(p), Path)
    BY ONLY <1>2, BeforeCases, p \in Positions
  <2>7. 1 \in 1..Len(p) /\ 1 <= Len(Path) BY ONLY <1>2, <2>1
  <2> QED BY ONLY <2>5, <2>6, <2>7, Zenon
<1>4. All(W.shown) BY <1>2, <1>3 DEF UpTo, All
<1>5. PICK walk : walk = [W EXCEPT !.at = "site", !.hashes = <<>>] OBVIOUS
<1>6. W' = walk
  <2>1. Update(walk) BY <1>5 DEF EndArguments
  <2> QED BY <1>2, <2>1, OneWalk
<1>7. walk.at = "site" /\ walk.shown = W.shown BY <1>2, <1>5 DEF Walk
<1>8. \A p, tables : Through(p, tables)' = Through(p, tables) BY <1>1 DEF Through
<1>9. \A p : Visible(p)' <=> Visible(p) BY <1>1, <1>8 DEF Visible
<1>10. PICK s : s = W.shown OBVIOUS
<1>11. (W.shown)' = s BY <1>6, <1>7, <1>10
<1>12. All(W.shown)' BY <1>4, <1>9, <1>10, <1>11 DEF All, InOrder
<1> QED BY <1>6, <1>7, <1>12 DEF Dumped

LEMMA DumpedNext == Typed /\ Marks /\ Dumped /\ [Next]_vars => Dumped'
<1> SUFFICES ASSUME Typed, Marks, Dumped, [Next]_vars PROVE Dumped'
  OBVIOUS
<1>1. ASSUME walks # <<>>, NEW walk, Update(walk), UNCHANGED <<leaked, dump_max_depth>>
      PROVE  (Sole' => Sole) /\ W' = walk
  BY <1>1, OneWalk DEF Sole
<1>2. CASE \/ EndArguments \/ CutArgument \/ LeaveHash \/ ShowLeaf \/ Recursion
           \/ EnterHash
  <2>1. UNCHANGED <<leaked, dump_max_depth>>
    BY <1>2 DEF EndArguments, CutArgument, LeaveHash, ShowLeaf, Recursion, EnterHash
  <2>2. Sole' => Sole
    <3>1. walks # <<>> /\ \E walk : Update(walk) BY <1>2, DumpSteps
    <3> QED BY <1>1, <2>1, <3>1
  <2>3. CASE Sole
    BY <1>2, <2>3, DumpEnds, ElementPassed, TableLeft, TableEntered
  <2> QED BY <2>2, <2>3 DEF Dumped
<1>3. CASE BeginFrame
  <2>1. CASE frames[W.call].kind # "dummy" BY <1>3, <2>1, DumpBegins
  <2>2. CASE frames[W.call].kind = "dummy"
    <3>1. walks # <<>> /\ UNCHANGED frames BY <1>3 DEF BeginFrame, Walking
    <3>2. PICK walk : walk = [W EXCEPT !.at = "site", !.shown = <<>>] OBVIOUS
    <3>3. Update(walk) BY <1>3, <2>2, <3>2 DEF BeginFrame
    <3>4. W' = walk BY <3>1, <3>3, OneWalk
    <3>5. walk.at = "site" /\ walk.call = W.call BY <3>1, <3>2, Outermost DEF Walk
    <3> QED BY <2>2, <3>1, <3>4, <3>5 DEF Dumped
  <2> QED BY <2>1, <2>2
<1>4. CASE EndLine
  <2>1. walks # <<>> BY <1>4 DEF EndLine, Walking
  <2>2. PICK walk : Update(walk) /\ walk.at = "frame"
    <3>1. PICK s, line : Update([W EXCEPT !.at = "frame", !.lines = Append(@, line),
                                          !.ptr = NextPtr(@), !.call = s])
      BY <1>4, Zenon DEF EndLine
    <3>2. PICK lines, ptr : lines = Append(W.lines, line) /\ ptr = NextPtr(W.ptr) OBVIOUS
    <3>3. PICK walk : walk = [W EXCEPT !.at = "frame", !.lines = lines,
                                       !.ptr = ptr, !.call = s]
      OBVIOUS
    <3>4. Update(walk) BY <3>1, <3>2, <3>3
    <3>5. walk.at = "frame" BY <2>1, <3>3, Outermost DEF Walk
    <3> QED BY <3>4, <3>5
  <2>3. W' = walk BY <2>1, <2>2, OneWalk
  <2> QED BY <2>2, <2>3 DEF Dumped
<1>5. CASE process_event \/ OutOfMemory
  <2>1. W' = NewWalk BY <1>5, BegunWalk DEF W
  <2>2. NewWalk.at = "frame" BY DEF NewWalk
  <2> QED BY <2>1, <2>2 DEF Dumped
<1>6. CASE Finish \/ Bailout
  <2>1. walks' = <<>> /\ Len(<<>>) = 0 BY <1>6 DEF Finish, Bailout
  <2> QED BY <2>1 DEF Dumped, Sole
<1>7. CASE UNCHANGED vars
  <2>1. UNCHANGED <<walks, heap, frames, dump_max_depth, leaked>> BY <1>7 DEF vars
  <2>2. \A p, tables : Through(p, tables)' = Through(p, tables) BY <2>1 DEF Through
  <2>3. \A p : Visible(p)' <=> Visible(p) BY <2>1, <2>2 DEF Visible
  <2>4. UNCHANGED <<W, Hashes, Path>> BY <2>1 DEF W, Hashes, Path
  <2>5. Sole' = Sole BY <2>1 DEF Sole
  <2>6. Linked(Hashes)' = Linked(Hashes) BY <2>1, <2>4 DEF Linked
  <2>7. Follows(Hashes)' <=> Follows(Hashes) BY <2>2, <2>4 DEF Follows, PathOf
  <2>8. /\ UpTo(W.shown, Path)' <=> UpTo(W.shown, Path)
        /\ All(W.shown)' <=> All(W.shown)
    BY <2>3, <2>4 DEF UpTo, All, InOrder
  <2> QED BY <2>1, <2>4, <2>5, <2>6, <2>7, <2>8 DEF Dumped
<1> QED BY <1>2, <1>3, <1>4, <1>5, <1>6, <1>7 DEF Next, Step, Terminated

\* However the values contain one another, how deep the dump may go, and how wide a char
\* is: as long as the setting fits a char and no dump was left by a long jump, the dump
\* of the arguments of a call shows what is visible, all of it, once and in order.
THEOREM DumpsAreComplete == Spec => []DumpComplete
<1>1. Typed /\ Dumped => DumpComplete
  <2> SUFFICES ASSUME Typed, Dumped, Walking("site"), Len(walks) = 1, leaked = {},
                      dump_max_depth <= CharMax, frames[W.call].kind # "dummy"
               PROVE  /\ \A p \in Paths \union ToSet(W.shown) :
                           p \in ToSet(W.shown) <=> Visible(p)
                      /\ \A i, j \in DOMAIN W.shown :
                           i < j => Before(W.shown[i], W.shown[j])
    BY DEF DumpComplete
  <2>1. All(W.shown) BY DEF Dumped, Sole, Walking
  <2>2. ASSUME NEW p \in Paths PROVE p \in Positions
    <3>1. Cardinality(Containers) \in Nat BY BacktraceAssumption, FS_CardinalityType
    <3>2. PICK n \in 1..(Cardinality(Containers) + 1), m \in Widths : p \in [1..n -> 1..m]
      BY DEF Paths
    <3>3. n \in Nat \ {0} BY <3>1, <3>2
    <3>4. m \in Nat
      <4>1. heap \in [Tables -> Seq(Containers \union {Leaf})]
        BY BacktraceAssumption DEF Typed, TypeOK
      <4>2. PICK t \in Tables : m = Len(heap[t]) BY <3>2 DEF Widths
      <4> QED BY <4>1, <4>2, LenProperties
    <3>5. p \in [1..n -> Nat \ {0}]
      <4>1. 1..m \subseteq Nat \ {0} BY <3>4
      <4> QED BY <3>2, <4>1
    <3>6. p \in Seq(Nat \ {0}) /\ Len(p) = n BY <3>3, <3>5
    <3>7. p # <<>>
      <4>1. Len(<<>>) = 0 OBVIOUS
      <4> QED BY <3>3, <3>6, <4>1
    <3> QED BY <3>6, <3>7 DEF Positions
  <2> QED BY <2>1, <2>2 DEF All, InOrder
<1>2. Init => Dumped
  <2>1. Init => Len(walks) = 0 BY DEF Init
  <2> QED BY <2>1 DEF Dumped, Sole
<1> QED BY <1>1, <1>2, DumpedNext, TypesInit, TypesNext, MarksInit, MarksNext, PTL DEF Spec

=============================================================================

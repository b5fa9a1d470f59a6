------------------------------ MODULE Backtrace ------------------------------
(***************************************************************************)
(* backtrace.c: append_backtrace walks the frames of the engine, writes a  *)
(* line for each call, and dumps the arguments of the call into it, down   *)
(* to apm.dump_max_depth.  Arrays and objects may contain themselves: a    *)
(* counter in each (nApplyCount) marks those being dumped.                 *)
(*                                                                         *)
(* The trace is built in request memory.  When that runs out the engine    *)
(* raises a fatal error from inside, which is an event with a trace of its *)
(* own; then it leaves all that was active by a long jump, counters and    *)
(* all.  `walks' holds the activations of append_backtrace, innermost      *)
(* first, each with the activations of append_flat_hash, innermost last.   *)
(***************************************************************************)
EXTENDS Integers, Sequences, FiniteSets, SequencesExt

CONSTANTS
  Containers,          \* arrays and objects
  Heaps,               \* what they and the arguments of a call may hold
  Stacks,              \* frames the engine may have, innermost first
  MaxDepths,           \* values of apm.dump_max_depth
  CharMax,             \* the largest char
  MaxEvents            \* bound

Leaf == "leaf"
Arguments == "arguments"
Tables == Containers \union {Arguments}

\* A frame is a function's or an included file's code, an internal function, or the
\* dummy that stands below a callback; `opcode' is what a frame of code executes.
Frames == [kind : {"user"}, opcode : {"call", "include", "other"}]
            \union [kind : {"internal", "dummy"}, opcode : {"none"}]

ASSUME BacktraceAssumption ==
  /\ IsFiniteSet(Containers) /\ {Leaf, Arguments} \intersect Containers = {}
  /\ Heaps \subseteq [Tables -> Seq(Containers \union {Leaf})]
  /\ Stacks \subseteq Seq(Frames)
  /\ MaxDepths \subseteq Int /\ CharMax \in Nat /\ MaxEvents \in Nat

VARIABLES
  phase,               \* script; shutdown, after a fatal error
  heap, frames, dump_max_depth,
  guard,               \* nApplyCount of each container
  walks,
  overflow,            \* the engine has reported that memory ran out
  page,                \* lines whose end went into the page
  events, leaked       \* history: events so far, and what a long jump left marked

vars == <<phase, heap, frames, dump_max_depth, guard, walks, overflow, page, events,
          leaked>>

W == walks[1]
Hashes == W.hashes
Innermost == Hashes[Len(Hashes)]
Update(walk) == walks' = <<walk>> \o Tail(walks)

NewWalk == [ptr |-> 1, call |-> 1, at |-> "frame", hashes |-> <<>>,
            shown |-> <<>>, lines |-> <<>>]

Init ==
  /\ phase = "script"
  /\ heap \in Heaps /\ frames \in Stacks /\ dump_max_depth \in MaxDepths
  /\ guard = [c \in Containers |-> 0] /\ leaked = {}
  /\ walks = <<>> /\ overflow = FALSE /\ page = 0 /\ events = 0

-----------------------------------------------------------------------------
(* append_backtrace *)

process_event ==
  /\ walks = <<>> /\ events < MaxEvents /\ events' = events + 1
  /\ walks' = <<NewWalk>> /\ page' = 0
  /\ UNCHANGED <<phase, heap, frames, dump_max_depth, guard, overflow, leaked>>

Walking(at) == walks # <<>> /\ W.at = at

More == W.ptr <= Len(frames)

BeginFrame ==
  /\ Walking("frame") /\ More
  /\ LET root == [of |-> Arguments, next |-> 1, depth |-> 0]
     IN Update(IF frames[W.call].kind = "dummy"
                 THEN [W EXCEPT !.at = "site", !.shown = <<>>]
                 ELSE [W EXCEPT !.at = "args", !.hashes = <<root>>, !.shown = <<>>])
  /\ UNCHANGED <<phase, heap, frames, dump_max_depth, guard, overflow, page, events,
                 leaked>>

User(p) == frames[p].kind = "user"

\* Mutant: only internal functions are passed over.
SkipInternal(p) ==
  IF frames[p].kind = "internal" /\ p < Len(frames) /\ User(p + 1)
       /\ frames[p + 1].opcode = "other"
    THEN p + 1 ELSE p

\* "skip internal handler"
Skip(p) ==
  IF ~User(p) /\ p < Len(frames) /\ User(p + 1) /\ frames[p + 1].opcode = "other"
    THEN p + 1 ELSE p

\* Mutant: the frame that was passed over is taken for the next one, too.
NextPtrOfSkipped(p) == p + 1
NextPtr(p) == Skip(p) + 1

\* Without a file the call site is looked for further down, past dummies, and
\* written with zend_printf.
Printed(s) ==
  /\ frames[s].kind = "dummy"
  /\ \E q \in (s + 1)..Len(frames) :
       User(q) /\ \A k \in s..(q - 1) : frames[k].kind = "dummy"

EndLine ==
  /\ Walking("site")
  /\ LET s == Skip(W.ptr)
         line == [call |-> W.call, site |-> IF User(s) THEN s ELSE 0]
     IN /\ Update([W EXCEPT !.at = "frame", !.lines = Append(@, line),
                            !.ptr = NextPtr(@), !.call = s])
        /\ page' = IF Printed(s) THEN page + 1 ELSE page
  /\ UNCHANGED <<phase, heap, frames, dump_max_depth, guard, overflow, events, leaked>>

\* The trace is complete; the fatal error of an inner one ends in a long jump.
Finish ==
  /\ Walking("frame") /\ ~More /\ Len(walks) = 1
  /\ walks' = <<>>
  /\ UNCHANGED <<phase, heap, frames, dump_max_depth, guard, overflow, page, events,
                 leaked>>

-----------------------------------------------------------------------------
(* debug_print_backtrace_args, append_flat_zval_r, append_flat_hash *)

Dumping == Walking("args")
Elements == heap[Innermost.of]
Exhausted == Innermost.next > Len(Elements)
Value == Elements[Innermost.next]
Path == [k \in 1..Len(Hashes) |-> Hashes[k].next]
InArguments == Len(Hashes) = 1

\* Mutant: one level more than configured (NEWS, 2.0.4).
TooDeepLate == Innermost.depth > dump_max_depth
TooDeep == Innermost.depth >= dump_max_depth

Advance(hashes) == [hashes EXCEPT ![Len(hashes)].next = @ + 1]

EndArguments ==
  /\ Dumping /\ InArguments /\ Exhausted
  /\ Update([W EXCEPT !.at = "site", !.hashes = <<>>])
  /\ UNCHANGED <<phase, heap, frames, dump_max_depth, guard, overflow, page, events,
                 leaked>>

\* Mutant: the argument is not passed over.
CutArgumentStays ==
  /\ Dumping /\ InArguments /\ ~Exhausted /\ TooDeep
  /\ UNCHANGED vars

\* "/* [...] */" stands for an argument; in a hash, for the rest of it.
CutArgument ==
  /\ Dumping /\ InArguments /\ ~Exhausted /\ TooDeep
  /\ Update([W EXCEPT !.hashes = Advance(@)])
  /\ UNCHANGED <<phase, heap, frames, dump_max_depth, guard, overflow, page, events,
                 leaked>>

\* Mutant: a hash that is cut is left without taking its mark off.
LeaveHashCut ==
  /\ Dumping /\ ~InArguments /\ (Exhausted \/ TooDeep)
  /\ guard' = IF TooDeep THEN guard ELSE [guard EXCEPT ![Innermost.of] = @ - 1]
  /\ Update([W EXCEPT !.hashes = Advance(Front(@))])
  /\ UNCHANGED <<phase, heap, frames, dump_max_depth, overflow, page, events, leaked>>

LeaveHash ==
  /\ Dumping /\ ~InArguments /\ (Exhausted \/ TooDeep)
  /\ guard' = [guard EXCEPT ![Innermost.of] = @ - 1]
  /\ Update([W EXCEPT !.hashes = Advance(Front(@))])
  /\ UNCHANGED <<phase, heap, frames, dump_max_depth, overflow, page, events, leaked>>

Showing == Dumping /\ ~Exhausted /\ ~TooDeep

\* append_variable
ShowLeaf ==
  /\ Showing /\ Value = Leaf
  /\ Update([W EXCEPT !.hashes = Advance(@), !.shown = Append(@, Path)])
  /\ UNCHANGED <<phase, heap, frames, dump_max_depth, guard, overflow, page, events,
                 leaked>>

\* "*RECURSION*" stands for a container that is being dumped already.
Recursion ==
  /\ Showing /\ Value # Leaf /\ guard[Value] > 0
  /\ Update([W EXCEPT !.hashes = Advance(@), !.shown = Append(@, Path)])
  /\ UNCHANGED <<phase, heap, frames, dump_max_depth, guard, overflow, page, events,
                 leaked>>

\* The depth is a char.
Deeper(depth) == IF depth = CharMax THEN -(CharMax + 1) ELSE depth + 1

EnterHash ==
  /\ Showing /\ Value # Leaf /\ guard[Value] = 0
  /\ guard' = [guard EXCEPT ![Value] = 1]
  /\ LET hash == [of |-> Value, next |-> 1, depth |-> Deeper(Innermost.depth)]
     IN Update([W EXCEPT !.hashes = Append(@, hash), !.shown = Append(@, Path)])
  /\ UNCHANGED <<phase, heap, frames, dump_max_depth, overflow, page, events, leaked>>

-----------------------------------------------------------------------------
(* The engine runs out of memory while a trace is built *)

OutOfMemory ==
  /\ walks # <<>> /\ ~overflow
  /\ overflow' = TRUE /\ walks' = <<NewWalk>> \o walks
  /\ UNCHANGED <<phase, heap, frames, dump_max_depth, guard, page, events, leaked>>

\* The long jump: the error has been handled, or memory ran out again meanwhile.
Bailout ==
  /\ walks # <<>> /\ overflow
  /\ walks' = <<>> /\ phase' = "shutdown"
  /\ leaked' = {c \in Containers : guard[c] > 0}
  /\ UNCHANGED <<heap, frames, dump_max_depth, guard, overflow, page, events>>

Step == BeginFrame \/ EndLine \/ Finish \/ EndArguments \/ CutArgument \/ LeaveHash
          \/ ShowLeaf \/ Recursion \/ EnterHash \/ Bailout

Terminated == walks = <<>> /\ events = MaxEvents /\ UNCHANGED vars

Next == process_event \/ Step \/ OutOfMemory \/ Terminated

Spec == Init /\ [][Next]_vars /\ WF_vars(Step)

-----------------------------------------------------------------------------
(* Properties *)

Hash == [of : Tables, next : Nat \ {0}, depth : Int]
Line == [call : Nat \ {0}, site : Nat]
Walk == [ptr : Nat \ {0}, call : Nat \ {0}, at : {"frame", "args", "site"},
         hashes : Seq(Hash), shown : Seq(Seq(Nat)), lines : Seq(Line)]

\* Types of the variables; nothing is marked twice.
TypeOK ==
  /\ phase \in {"script", "shutdown"}
  /\ heap \in Heaps /\ frames \in Stacks /\ dump_max_depth \in MaxDepths
  /\ guard \in [Containers -> 0..1] /\ leaked \subseteq Containers
  /\ walks \in Seq(Walk) /\ overflow \in BOOLEAN /\ page \in Nat /\ events \in Nat

Active(w) == {w.hashes[k].of : k \in 2..Len(w.hashes)}

\* A container is marked exactly while it is being dumped: every way out of a dump
\* takes the mark off again, but for the long jump.
GuardsHeld ==
  \A c \in Containers :
    guard[c] = 1 <=> c \in leaked \/ \E i \in DOMAIN walks : c \in Active(walks[i])

\* What is shown of the arguments: what a path leads to from table to table that is no
\* longer than configured, and does not lead into a table again.
Through(path, tables) ==
  /\ tables[1] = Arguments
  /\ \A k \in DOMAIN path : path[k] \in DOMAIN heap[tables[k]]
  /\ \A k \in 2..Len(path) : tables[k] = heap[tables[k - 1]][path[k - 1]]
  /\ \A k, l \in DOMAIN path : tables[k] = tables[l] => k = l
Visible(path) ==
  /\ Len(path) <= dump_max_depth
  /\ \E tables \in [DOMAIN path -> Tables] : Through(path, tables)

Widths == {Len(heap[t]) : t \in Tables}
Paths == UNION {[1..n -> 1..m] : n \in 1..(Cardinality(Containers) + 1), m \in Widths}

Before(p, q) ==
  \/ \E k \in DOMAIN p \intersect DOMAIN q :
       p[k] < q[k] /\ \A l \in 1..(k - 1) : p[l] = q[l]
  \/ Len(p) < Len(q) /\ \A l \in DOMAIN p : p[l] = q[l]

\* The dump of a call's arguments shows, once and in order, exactly what lies no
\* deeper than apm.dump_max_depth (NEWS: "dumped with a bigger depth than what is
\* configured"), however the values contain one another, as long as the setting fits
\* a char and no dump was left by a long jump.
DumpComplete ==
  Walking("site") /\ Len(walks) = 1 /\ leaked = {} /\ dump_max_depth <= CharMax
    /\ frames[W.call].kind # "dummy"
    => /\ \A p \in Paths \union ToSet(W.shown) : p \in ToSet(W.shown) <=> Visible(p)
       /\ \A i, j \in DOMAIN W.shown : i < j => Before(W.shown[i], W.shown[j])

\* Every frame of code is the call site of exactly one line of the trace, innermost
\* first, whatever lies between them.
EveryFrameOnce ==
  Walking("frame") /\ ~More =>
    /\ {line.site : line \in ToSet(W.lines)} \ {0} = {p \in DOMAIN frames : User(p)}
    /\ \A j, k \in DOMAIN W.lines :
         j < k /\ W.lines[k].site # 0 => W.lines[j].site < W.lines[k].site

\* A line ends in the trace and not in the page, unless a callback was made from the
\* inclusion of a file.
LinesEnded ==
  page > 0 => \E p \in 1..(Len(frames) - 1) :
                frames[p].kind = "dummy" /\ frames[p + 1].opcode = "include"

\* Every trace is finished, also of values that contain themselves, and whatever
\* the configured depth.
TraceEnds == []<>(walks = <<>>)
=============================================================================

---------------------------- MODULE MCBacktrace ----------------------------
(* Small instances of Backtrace for TLC.                                   *)
EXTENDS Backtrace

CONSTANTS a, b, c

MCContainers == {a, b, c}

\* A chain of three, with and without a way back to each of its links.
MCHeaps ==
  {[t \in Tables |-> CASE t = Arguments -> <<a, Leaf>> [] t = a -> x
                       [] t = b -> y [] t = c -> z] :
     x \in {<<b, Leaf>>, <<b, b>>}, y \in {<<c>>, <<a, c>>}, z \in {<<Leaf>>, <<a, b>>}}
    \union {[t \in Tables |-> IF t = Arguments THEN <<a, b>> ELSE s] :
              s \in {<<>>, <<a>>}}

\* Frame f may be called from frame g.
Above(f, g) ==
  \/ g.opcode = "call" /\ f.kind \in {"user", "internal"}
  \/ g.opcode = "include" /\ f.kind \in {"user", "dummy"}
  \/ g.opcode = "other" /\ f.kind = "dummy"
  \/ g.kind \in {"internal", "dummy"} /\ f.kind \in {"user", "internal"}

\* The outermost frame is the script's, or the dummy below a callback that the engine
\* makes outside any code (a shutdown function).  Nothing looks at what the innermost
\* executes when it is code: so it is never "other".
MCStacks ==
  {s \in UNION {[1..n -> Frames] : n \in 1..3} :
     /\ s[1].kind # "dummy" /\ s[1].opcode # "other" /\ s[Len(s)].kind # "internal"
     /\ \A k \in 1..(Len(s) - 1) : Above(s[k], s[k + 1])}

MCDepths == 0..3
=============================================================================

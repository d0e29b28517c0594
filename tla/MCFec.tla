-------------------------------- MODULE MCFec --------------------------------
(***************************************************************************)
(* FEC for TLC, with one of two senders: this stack's, which never leaves  *)
(* its first block, or an external one that sends a stream of Blocks coded *)
(* blocks as tcp_fec_emit_block means to, advancing the block id.  All its *)
(* segments are on their way from the beginning, and reach the receiver in *)
(* any order and number: it has slots for fewer blocks than there are, and *)
(* a window that does not reach to the end.                                *)
(***************************************************************************)
EXTENDS TcpConn

CONSTANT Blocks

\* Where symbol i of block b begins.
SymbolAt(b, i) == 1 + (b * K + i) * Sym

Symbol(b, i) == Run(SymbolAt(b, i), Sym)

BlockSources(b) ==
  {Segment(SymbolAt(b, i), 1, Symbol(b, i), TRUE, FALSE, FALSE, SourceTag(b, i)) : i \in 0..K-1}

BlockRepairs(b) ==
  {Segment(SymbolAt(b + 1, 0), 1, Nothing, FALSE, FALSE, FALSE,
           RepairTag(b, j, K, SymbolAt(b, 0), Sym, [i \in 1..K |-> Symbol(b, i - 1)])) : j \in 0..R-1}

Coded == UNION {BlockSources(b) \union BlockRepairs(b) : b \in 0..Blocks-1}

\* The external sender takes part in no action of TcpConn but with what it has sent.
CodedInit ==
  /\ sk = [A |-> [Established EXCEPT !.state = "EXTERNAL", !.written = Blocks * K * Sym],
           B |-> Established]
  /\ net = [A |-> {}, B |-> Coded]
  /\ lost = 0

MCInit == Init \/ CodedInit

MCSpec == MCInit /\ [][Next]_vars

\* What the receiver sends to the external sender is read by nobody: states that differ
\* only in it are one.
MCView == IF sk["A"].state = "EXTERNAL" THEN <<sk["B"], net["B"], lost>> ELSE vars
==============================================================================

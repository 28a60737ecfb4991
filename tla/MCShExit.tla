------------------------------- MODULE MCShExit -------------------------------
(* Instances of ShExit: one file as the linker loads it, with unreadable   *)
(* code and a hole behind its data, and one as the kernel does.            *)
EXTENDS ShExit, TLC

CONSTANTS h1, h2, linked, fromKernel

Segment(start, fileEnd, end, x, r) ==
  [start |-> start, fileEnd |-> fileEnd, end |-> end, x |-> x, r |-> r]

Linked ==
  [byKernel |-> FALSE,
   segs |-> << Segment(0, 3, 3, FALSE, TRUE),      (* 8 .. 15 is unused     *)
               Segment(16, 29, 29, TRUE, FALSE),
               Segment(32, 34, 45, FALSE, TRUE),   (* 48 .. 55 is unused    *)
               Segment(56, 57, 57, TRUE, TRUE) >>]

FromKernel ==
  [byKernel |-> TRUE,
   segs |-> << Segment(16, 26, 26, TRUE, TRUE), Segment(32, 34, 45, FALSE, TRUE) >>]

MCLayoutOf == linked :> Linked @@ fromKernel :> FromKernel

MCPcOf == h1 :> 16 @@ h2 :> 24
===============================================================================

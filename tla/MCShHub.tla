------------------------------- MODULE MCShHub -------------------------------
(* Instances of ShHub.  MCShHubChain.cfg: one running thread, two hooked   *)
(* functions with two proxies each that are hooked and unhooked all the    *)
(* time.  MCShHubStacks.cfg: two threads that compete for one cached and   *)
(* one mapped stack, with signal handlers and pthread_exit.                *)
EXTENDS ShHub, TLC

CONSTANTS t1, t2, h1, h2, p1, p2, p3

ChainTarget  == p1 :> h1 @@ p2 :> h1 @@ p3 :> h2
StacksTarget == p1 :> h1

ChainSymmetry  == Permutations({p1, p2})
StacksSymmetry == Permutations({t1, t2})
=============================================================================

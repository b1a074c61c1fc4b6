------------------------------ MODULE MCSelect ------------------------------
(* Select with small sets of statements. *)
EXTENDS Select, TLC

CONSTANTS unbuf, buf1, stop

Recv(c) == [c |-> c, isSend |-> FALSE]
SendOn(c) == [c |-> c, isSend |-> TRUE]
Blocking(cases) == [cases |-> cases, hasDefault |-> FALSE]
WithDefault(cases) == [cases |-> cases, hasDefault |-> TRUE]

MCCapacity == (unbuf :> 0) @@ (buf1 :> 1)
StopCapacity == (unbuf :> 0) @@ (stop :> 0)

\* Every mix of send and receive cases over two channels, a nil case, a
\* default, and select{}.
MixedStmts ==
  {Blocking(<<Recv(unbuf), Recv(buf1)>>),
   Blocking(<<SendOn(unbuf), Recv(Nil), Recv(buf1)>>),
   Blocking(<<SendOn(buf1), Recv(unbuf)>>),
   WithDefault(<<SendOn(unbuf), Recv(buf1)>>),
   Blocking(<<>>)}

\* The idiom of a worker: communicate or stop when the context is done.
StopStmts ==
  {Blocking(<<Recv(unbuf), Recv(stop)>>),
   Blocking(<<SendOn(unbuf), Recv(stop)>>)}

TwoReceives == {Blocking(<<Recv(unbuf), Recv(buf1)>>)}

Goroutines == Permutations(G)
=============================================================================

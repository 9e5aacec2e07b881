------------------------------ MODULE Futures ------------------------------
(***************************************************************************)
(* The two kinds of future beside each other: names without a prefix are   *)
(* those of async_future, F! those of Future.                              *)
(***************************************************************************)
EXTENDS AsyncFuture

CONSTANTS
  FutureWaiters, FutureAdders,  \* the threads that use the Future
  NoSem

VARIABLES fresolved, fhasValue, resolver, sem, held, fcallbacks, timed, fpc,
  result, fcalls, dropped

F == INSTANCE Future WITH
  Waiters <- FutureWaiters, Adders <- FutureAdders,
  resolved <- fresolved, hasValue <- fhasValue, callbacks <- fcallbacks,
  pc <- fpc, calls <- fcalls

fvars == <<fresolved, fhasValue, resolver, sem, held, fcallbacks, timed, fpc, result, fcalls, dropped>>

FutureSpec == F!Init /\ [][F!Next]_fvars

-----------------------------------------------------------------------------
\* What Future says of it.
FutureSafe == F!FutureSafe
TimedReturns == F!TimedReturns
WaitReturns == F!WaitReturns
CallbacksCalled == F!CallbacksCalled
=============================================================================

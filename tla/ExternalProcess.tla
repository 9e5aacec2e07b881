--------------------------- MODULE ExternalProcess --------------------------
(***************************************************************************)
(* linux_spawn.h: spawn() makes four pipes and forks; the child gets three *)
(* of them as its standard streams and reports over the fourth what goes   *)
(* wrong before its program starts.  The kernel's tables of descriptors    *)
(* are modelled as far as pipe2(), fork(), dup2(), close() and exec() go.  *)
(***************************************************************************)
EXTENDS Naturals, Sequences

CONSTANTS
  MaxFd,         \* the greatest descriptor a process may have
  Inherited,     \* the parent's descriptors that a program it starts inherits
  ClosesStdin    \* does the program close stdin before it joins?

VARIABLES
  pfd, cfd,      \* the descriptors of parent and child: end of a pipe, and whether exec() closes it
  ppc, cpc,
  made,          \* how many pipes are made
  control,       \* what is in the control pipe
  program,       \* what the child's program does: "exits", or "reads" its input to the end
  pid,           \* of the object: is there a child to wait for?
  zombie,        \* did the child end without having been waited for?
  interrupted    \* ghost: did a signal end a read() of the control pipe?

vars == <<pfd, cfd, ppc, cpc, made, control, program, pid, zombie, interrupted>>

Pipes == <<"input", "output", "error", "control">>
Fds == 0..MaxFd
Free == [pipe |-> "none", side |-> "none", cloexec |-> FALSE]
Std == [pipe |-> "inherited", side |-> "none", cloexec |-> FALSE]
End(p, s) == [pipe |-> p, side |-> s, cloexec |-> TRUE]
Nothing == [fd \in Fds |-> Free]

\* pipe2() takes the two smallest free descriptors, and fails when there is but one.
Unused(t) == {fd \in Fds : t[fd] = Free}
Lowest(t) == CHOOSE fd \in Unused(t) : \A other \in Unused(t) : fd <= other
Open(t, e) == [t EXCEPT ![Lowest(t)] = e]
CanOpen(t) == \E fd, other \in Unused(t) : fd # other
Holds(t, p, s) == {fd \in Fds : t[fd].pipe = p /\ t[fd].side = s}
FdOf(t, p, s) == CHOOSE fd \in Holds(t, p, s) : TRUE
Close(t, p, s) == [fd \in Fds |-> IF fd \in Holds(t, p, s) THEN Free ELSE t[fd]]
\* A reader gets the end of file when nobody has the other end.
AtEnd(p) == Holds(pfd, p, "w") = {} /\ Holds(cfd, p, "w") = {}

\* What the parent had before.
Start == [fd \in Fds |-> IF fd \in Inherited THEN Std ELSE Free]
Init ==
  /\ pfd = Start
  /\ cfd = Nothing /\ ppc = "pipe" /\ cpc = "none" /\ made = 0 /\ control = <<>>
  /\ program \in {"exits", "reads"} /\ pid = FALSE /\ zombie = FALSE
  /\ interrupted = FALSE

\* The destructors of the FDs close what is left.
OnlyStd(t) == [fd \in Fds |-> IF t[fd] = Std THEN Std ELSE Free]
Throw == pfd' = OnlyStd(pfd) /\ ppc' = "threw"

makePipe ==
  /\ ppc = "pipe" /\ UNCHANGED <<cfd, cpc, control, program, pid, zombie>>
  /\ \/ Throw /\ UNCHANGED made
     \/ /\ CanOpen(pfd)
        /\ pfd' = Open(Open(pfd, End(Pipes[made + 1], "r")), End(Pipes[made + 1], "w"))
        /\ made' = made + 1 /\ ppc' = IF made' = Len(Pipes) THEN "fork" ELSE ppc

Fork ==
  /\ ppc = "fork" /\ UNCHANGED <<made, control, program, pid, zombie>>
  /\ \/ Throw /\ UNCHANGED <<cfd, cpc>>
     \/ cfd' = pfd /\ cpc' = "chdir" /\ ppc' = "close" /\ UNCHANGED pfd

-----------------------------------------------------------------------------
\* The child.  Each call may fail, and then the error goes into the control pipe.
Fail == cpc' = "report" /\ UNCHANGED cfd

\* dup2() of a descriptor to itself does nothing, so it stays to be closed by exec().
Copied(e) == [pipe |-> e.pipe, side |-> e.side, cloexec |-> FALSE]
Dup2(from, to) == IF from = to THEN cfd ELSE [cfd EXCEPT ![to] = Copied(cfd[from])]
Steps == [chdir |-> "stdin", stdin |-> "stdout", stdout |-> "stderr", stderr |-> "exec"]
Prepare ==
  /\ cpc \in DOMAIN Steps /\ UNCHANGED <<pfd, ppc, made, control, program, pid, zombie>>
  /\ \/ Fail
     \/ /\ cpc' = Steps[cpc]
        /\ cfd' = CASE cpc = "chdir" -> cfd
                    [] cpc = "stdin" -> Dup2(FdOf(cfd, "input", "r"), 0)
                    [] cpc = "stdout" -> Dup2(FdOf(cfd, "output", "w"), 1)
                    [] cpc = "stderr" -> Dup2(FdOf(cfd, "error", "w"), 2)

Exec ==
  /\ cpc = "exec" /\ UNCHANGED <<pfd, ppc, made, control, program, pid, zombie>>
  /\ \/ Fail
     \/ /\ cfd' = [fd \in Fds |-> IF cfd[fd].cloexec THEN Free ELSE cfd[fd]]
        /\ cpc' = "running"

\* The number and the text are two writes.
ReportError ==
  /\ cpc \in {"report", "describe"}
  /\ control' = Append(control, cpc)
  /\ cpc' = IF cpc = "report" THEN "describe" ELSE "exit"
  /\ UNCHANGED <<pfd, cfd, ppc, made, program, pid, zombie>>

\* The program ends on its own, or when its input does.
Ends == program = "exits" \/ AtEnd("input") \/ Holds(cfd, "input", "r") = {}
Exit ==
  /\ cpc = "exit" \/ (cpc = "running" /\ Ends)
  /\ cfd' = Nothing /\ zombie' = TRUE
  /\ cpc' = IF cpc = "exit" THEN "failed" ELSE "ended"
  /\ UNCHANGED <<pfd, ppc, made, control, program, pid>>

-----------------------------------------------------------------------------
\* Fault: the parent keeps its end, and waits for itself.
KeepControl ==
  /\ ppc = "close" /\ ppc' = "read"
  /\ UNCHANGED <<pfd, cfd, cpc, made, control, program, pid, zombie>>

CloseControl ==
  /\ ppc = "close" /\ ppc' = "read" /\ pfd' = Close(pfd, "control", "w")
  /\ UNCHANGED <<cfd, cpc, made, control, program, pid, zombie>>

\* What read() does not wait for: something in the pipe, or its end.
CanRead == control # <<>> \/ AtEnd("control")
\* spawn() returns: three ends go to the object, the others are closed.
Return ==
  /\ ppc' = "ok" /\ pid' = TRUE /\ UNCHANGED control
  /\ pfd' = [fd \in Fds |-> IF fd \in Holds(pfd, "input", "w") \cup Holds(pfd, "output", "r")
                                   \cup Holds(pfd, "error", "r") \/ pfd[fd] = Std
                           THEN pfd[fd] ELSE Free]
\* The number of an error; anything else that read() returns counts as a program
\* that has started: the end of file, and a signal while it waits.
ReadError ==
  /\ ppc = "read"
  /\ \/ control # <<>> /\ control' = Tail(control) /\ ppc' = "readText" /\ UNCHANGED <<pfd, pid, interrupted>>
     \/ control = <<>> /\ AtEnd("control") /\ Return /\ UNCHANGED interrupted
     \/ ~CanRead /\ Return /\ interrupted' = TRUE
  /\ UNCHANGED <<cfd, cpc, made, program, zombie>>

\* The text, as far as it comes.
ReadText ==
  /\ ppc = "readText"
  /\ \/ control # <<>> /\ control' = Tail(control) /\ UNCHANGED <<pfd, ppc, interrupted>>
     \/ control = <<>> /\ AtEnd("control") /\ Throw /\ UNCHANGED <<control, interrupted>>
     \/ ~CanRead /\ Throw /\ interrupted' = TRUE /\ UNCHANGED control
  /\ UNCHANGED <<cfd, cpc, made, program, pid, zombie>>

\* What the program does with the object: it closes stdin, asks, joins, signals, detaches or destroys it.
Idle == ppc = "ok"
CloseStdin ==
  /\ Idle /\ Holds(pfd, "input", "w") # {} /\ pfd' = Close(pfd, "input", "w")
  /\ UNCHANGED <<cfd, ppc, cpc, made, control, program, pid, zombie>>
isRunning ==
  /\ Idle /\ pid /\ zombie /\ pid' = FALSE /\ zombie' = FALSE
  /\ UNCHANGED <<pfd, cfd, ppc, cpc, made, control, program>>
sendSignal ==
  /\ Idle /\ pid /\ cpc \notin {"ended", "failed"} /\ cpc' = "ended" /\ zombie' = TRUE /\ cfd' = Nothing
  /\ UNCHANGED <<pfd, ppc, made, control, program, pid>>
detach ==
  /\ Idle /\ pid /\ pid' = FALSE
  /\ UNCHANGED <<pfd, cfd, ppc, cpc, made, control, program, zombie>>
Destroy ==
  /\ Idle /\ (ClosesStdin => Holds(pfd, "input", "w") = {})
  /\ ppc' = "join"
  /\ UNCHANGED <<pfd, cfd, cpc, made, control, program, pid, zombie>>
\* join() of the destructor; the streams are closed after it.
Joined ==
  /\ ppc = "join" /\ (pid => zombie)
  /\ pid' = FALSE /\ zombie' = (zombie /\ ~pid)
  /\ pfd' = OnlyStd(pfd) /\ ppc' = "destroyed"
  /\ UNCHANGED <<cfd, cpc, made, control, program>>

Child == Prepare \/ Exec \/ ReportError \/ Exit
Parent ==
  \/ makePipe
  \/ Fork
  \/ CloseControl
  \/ CloseStdin
  \/ isRunning
  \/ sendSignal
  \/ detach
  \/ Destroy
  \/ Joined

Next ==
  \/ (Child \/ Parent) /\ UNCHANGED interrupted
  \/ ReadError
  \/ ReadText

Spec == Init /\ [][Next]_vars

-----------------------------------------------------------------------------
\* The ends that an object has, and the descriptors of the parent that are one of a pipe.
ObjectEnds == {End("input", "w"), End("output", "r"), End("error", "r")}
Owned == {fd \in Fds : pfd[fd] \notin {Std, Free}}

\* spawn() tells what became of the child: unless a signal interrupts its read(),
\* it returns an object only when the program runs with the three pipes as its
\* streams and, beside what it inherits, nothing else, and throws only when there
\* is no program; and it comes to one of these once the child started or gave up.
\* Interrupted or not, the descriptors are then those the parent had before and one
\* for each end of the object, or none; and the destructor, after stdin was closed,
\* does not wait for a child that waits for it.
SpawnTells ==
  /\ ppc = "ok" =>
       /\ interrupted \/ cpc \in {"running", "ended"}
       /\ ObjectEnds \ {End("input", "w")} \subseteq {pfd[fd] : fd \in Owned}
       /\ {pfd[fd] : fd \in Owned} \subseteq ObjectEnds
       /\ \A fd, other \in Owned : pfd[fd] = pfd[other] => fd = other
       /\ \A fd \in Fds \ Owned : pfd[fd] = Start[fd]
  /\ cpc = "running" =>
       /\ <<cfd[0].pipe, cfd[1].pipe, cfd[2].pipe>> = <<"input", "output", "error">>
       /\ \A fd \in Fds \ (0..2) : cfd[fd] = Start[fd]
  /\ ppc = "threw" => (interrupted \/ cpc \in {"none", "failed"}) /\ pfd = Start
  /\ ppc \in {"read", "readText"} /\ cpc \in {"running", "ended", "failed"} => CanRead
  /\ ppc = "join" /\ pid /\ cpc = "running" => Ends
=============================================================================

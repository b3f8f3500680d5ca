---------------------------- MODULE SignalBridge ----------------------------
(***************************************************************************)
(* The interrupt forwarding of the start handler (server_command/start.cpp *)
(* lines 59-111 and 716-738): the process-wide atomic slot                 *)
(* signal_pipe_write_end, the async-signal handler InterruptHandler(), the *)
(* request thread that arms and disarms it around the launcher, and the    *)
(* interrupter thread that reads the pipe and interrupts the launcher.     *)
(*                                                                         *)
(* A file descriptor is <<k, e>>: fds[e] of the k-th pipe2() call.  pipe2  *)
(* returns the read end in fds[0] and the write end in fds[1]; a write to  *)
(* a read end and a read from a write end fail with EBADF.  Each atomic    *)
(* exchange, write, read and close is one step; signal handlers run on any *)
(* thread of the daemon, so invocations on different threads interleave.   *)
(***************************************************************************)
EXTENDS Naturals, FiniteSets

CONSTANTS
    Threads,       \* threads a signal may be delivered to
    NumArms,       \* requests that arm the handler, one after the other
    MaxSignals,    \* bound on signals delivered in a behaviour
    PipeCapacity,  \* bytes the pipe holds before a non-blocking write fails
    ClosedFd,      \* CLOSED_FD (-1)
    InUseFd        \* IN_USE_FD (-2)

ASSUME NumArms \in Nat \ {0} /\ MaxSignals \in Nat /\ PipeCapacity \in Nat \ {0}

(* HandleInterruptSignals() stores fds[0] in the slot and hands fds[1] to  *)
(* the interrupter thread (start.cpp:95, :99).                             *)
SlotEnd == 0

ReaderEnd == 1 - SlotEnd

Fds == (1..NumArms) \X {0, 1}
IsFd(v) == v \in Fds
IsReadEnd(fd) == fd[2] = 0
IsWriteEnd(fd) == fd[2] = 1
WriteEndOf(fd) == <<fd[1], 1>>

VARIABLES
    signal_pipe_write_end,  \* the atomic slot
    open,        \* file descriptors currently open
    buffered,    \* buffered[k]: bytes in the k-th pipe
    installed,   \* InterruptHandler is the disposition of SIGINT/HUP/TERM
    arms,        \* pipes created so far
    mpc,         \* the request thread
    hpc, hfd,    \* each thread's handler invocation and its local fd
    signals,     \* signals delivered so far
    rpc, rfd,    \* the interrupter thread and the fd it reads
    child,       \* the launcher the request supervises
    aborted,     \* CHECK(previous_value == CLOSED_FD) failed
    misuse       \* writes and closes applied to an fd that was closed

vars == <<signal_pipe_write_end, open, buffered, installed, arms, mpc, hpc, hfd,
          signals, rpc, rfd, child, aborted, misuse>>

(* close(fd); closing an fd that is not open is recorded as misuse.       *)
Close(fd) ==
    /\ open' = open \ {fd}
    /\ misuse' = IF fd \in open THEN misuse ELSE misuse \cup {<<"close", fd>>}

-----------------------------------------------------------------------------
(* InterruptHandler(signal), one step per atomic operation.               *)

(* A signal arrives while the handler is installed.                       *)
Deliver(t) ==
    /\ installed /\ hpc[t] = "idle" /\ signals < MaxSignals
    /\ hpc' = [hpc EXCEPT ![t] = "entered"]
    /\ signals' = signals + 1
    /\ UNCHANGED <<signal_pipe_write_end, open, buffered, installed, arms, mpc, hfd,
                   rpc, rfd, child, aborted, misuse>>

(* fd = signal_pipe_write_end.exchange(IN_USE_FD)                         *)
HandlerTake(t) ==
    /\ hpc[t] = "entered"
    /\ hfd' = [hfd EXCEPT ![t] = signal_pipe_write_end]
    /\ signal_pipe_write_end' = InUseFd
    /\ hpc' = [hpc EXCEPT ![t] = "taken"]
    /\ UNCHANGED <<open, buffered, installed, arms, mpc, signals, rpc, rfd, child,
                   aborted, misuse>>

(* if (fd >= 0) write(fd, &signal, sizeof(signal)), result ignored: only   *)
(* an open write end of a pipe with room takes the bytes.                 *)
HandlerWrite(t) ==
    LET fd == hfd[t] IN
    /\ hpc[t] = "taken"
    /\ hpc' = [hpc EXCEPT ![t] = "written"]
    /\ buffered' = IF IsFd(fd) /\ fd \in open /\ IsWriteEnd(fd)
                      /\ buffered[fd[1]] < PipeCapacity
                   THEN [buffered EXCEPT ![fd[1]] = @ + 1]
                   ELSE buffered
    /\ misuse' = IF IsFd(fd) /\ fd \notin open THEN misuse \cup {<<"write", fd>>}
                 ELSE misuse
    /\ UNCHANGED <<signal_pipe_write_end, open, installed, arms, mpc, hfd, signals,
                   rpc, rfd, child, aborted>>

(* Fault variant: the value swapped back in is not looked at.            *)
HandlerRestoreNoCheck(t) ==
    /\ hpc[t] = "written"
    /\ signal_pipe_write_end' = hfd[t]
    /\ hpc' = [hpc EXCEPT ![t] = "idle"]
    /\ UNCHANGED <<open, buffered, installed, arms, mpc, hfd, signals, rpc, rfd, child,
                   aborted, misuse>>

(* fd = signal_pipe_write_end.exchange(fd); if (fd != IN_USE_FD) the       *)
(* handler was disabled meanwhile and must close the fd itself.           *)
HandlerRestore(t) ==
    /\ hpc[t] = "written"
    /\ signal_pipe_write_end' = hfd[t]
    /\ hpc' = [hpc EXCEPT ![t] = IF signal_pipe_write_end = InUseFd THEN "idle"
                                                                  ELSE "disabled"]
    /\ UNCHANGED <<open, buffered, installed, arms, mpc, hfd, signals, rpc, rfd, child,
                   aborted, misuse>>

(* fd = signal_pipe_write_end.exchange(CLOSED_FD); if (fd >= 0) close(fd) *)
HandlerClose(t) ==
    LET fd == signal_pipe_write_end IN
    /\ hpc[t] = "disabled"
    /\ signal_pipe_write_end' = ClosedFd
    /\ IF IsFd(fd) THEN Close(fd) ELSE UNCHANGED <<open, misuse>>
    /\ hpc' = [hpc EXCEPT ![t] = "idle"]
    /\ UNCHANGED <<buffered, installed, arms, mpc, hfd, signals, rpc, rfd, child, aborted>>

-----------------------------------------------------------------------------
(* The request thread.                                                    *)

(* HandleInterruptSignals(): pipe2, store fds[SlotEnd] in the slot, CHECK *)
(* that it held CLOSED_FD, install the handler, return the other fd; the  *)
(* interrupter thread is started on that fd and the launcher is started.  *)
HandleInterruptSignals ==
    LET k == arms + 1 IN
    /\ mpc = "idle" /\ ~aborted
    /\ arms' = k
    /\ open' = open \cup {<<k, 0>>, <<k, 1>>}
    /\ signal_pipe_write_end' = <<k, SlotEnd>>
    /\ IF signal_pipe_write_end = ClosedFd
       THEN /\ installed' = TRUE
            /\ rpc' = "reading" /\ rfd' = <<k, ReaderEnd>>
            /\ child' = "running"
            /\ mpc' = "waiting"
            /\ UNCHANGED aborted
       ELSE /\ aborted' = TRUE
            /\ UNCHANGED <<installed, rpc, rfd, child, mpc>>
    /\ UNCHANGED <<buffered, hpc, hfd, signals, misuse>>

(* Fault variant: the wait returns while the launcher still runs.         *)
WaitLauncherNoWait ==
    /\ mpc = "waiting"
    /\ mpc' = "stopping"
    /\ UNCHANGED <<signal_pipe_write_end, open, buffered, installed, arms, hpc, hfd,
                   signals, rpc, rfd, child, aborted, misuse>>

(* The subprocess waiter returns once the launcher is gone.               *)
WaitLauncher ==
    /\ mpc = "waiting" /\ child \in {"exited", "interrupted"}
    /\ mpc' = "stopping"
    /\ UNCHANGED <<signal_pipe_write_end, open, buffered, installed, arms, hpc, hfd,
                   signals, rpc, rfd, child, aborted, misuse>>

(* StopHandlingInterruptSignals(): restore SIG_DFL, then swap CLOSED_FD in *)
(* and close what was there if it is an fd; a negative value means a      *)
(* handler holds the fd and will close it.                                *)
RestoreDefaultHandlers ==
    /\ mpc = "stopping"
    /\ installed' = FALSE
    /\ mpc' = "disarming"
    /\ UNCHANGED <<signal_pipe_write_end, open, buffered, arms, hpc, hfd, signals,
                   rpc, rfd, child, aborted, misuse>>

(* Fault variant: the request closes its own fd whatever the slot held.  *)
StopClosingOwnFd ==
    /\ mpc = "disarming"
    /\ signal_pipe_write_end' = ClosedFd
    /\ Close(<<arms, SlotEnd>>)
    /\ mpc' = "joining"
    /\ UNCHANGED <<buffered, installed, arms, hpc, hfd, signals, rpc, rfd, child, aborted>>

StopHandlingInterruptSignals ==
    LET fd == signal_pipe_write_end IN
    /\ mpc = "disarming"
    /\ signal_pipe_write_end' = ClosedFd
    /\ IF IsFd(fd) THEN Close(fd) ELSE UNCHANGED <<open, misuse>>
    /\ mpc' = "joining"
    /\ UNCHANGED <<buffered, installed, arms, hpc, hfd, signals, rpc, rfd, child, aborted>>

(* interrupter_thread.join(); the next request may then arm again.        *)
Join ==
    /\ mpc = "joining" /\ rpc = "done"
    /\ mpc' = IF arms < NumArms THEN "idle" ELSE "finished"
    /\ rpc' = "none"
    /\ child' = "none"
    /\ UNCHANGED <<signal_pipe_write_end, open, buffered, installed, arms, hpc, hfd,
                   signals, rfd, aborted, misuse>>

-----------------------------------------------------------------------------
(* The interrupter thread: read(signals_fd).  A byte interrupts the       *)
(* launcher and the loop goes on; 0 (every write end closed) closes the   *)
(* fd and ends the thread; an error is logged and ends the thread without *)
(* closing the fd.  With nothing to read and a writer open, read blocks.  *)
InterrupterRead ==
    /\ rpc = "reading"
    /\ \/ /\ ~(rfd \in open /\ IsReadEnd(rfd))
          /\ rpc' = "done"
          /\ UNCHANGED <<open, buffered, child, misuse>>
       \/ /\ rfd \in open /\ IsReadEnd(rfd) /\ buffered[rfd[1]] > 0
          /\ buffered' = [buffered EXCEPT ![rfd[1]] = @ - 1]
          /\ child' = IF child = "running" THEN "interrupted" ELSE child
          /\ UNCHANGED <<open, rpc, misuse>>
       \/ /\ rfd \in open /\ IsReadEnd(rfd) /\ buffered[rfd[1]] = 0
          /\ WriteEndOf(rfd) \notin open
          /\ Close(rfd)
          /\ rpc' = "done"
          /\ UNCHANGED <<buffered, child>>
    /\ UNCHANGED <<signal_pipe_write_end, installed, arms, mpc, hpc, hfd, signals, rfd,
                   aborted>>

(* The launcher exits on its own; nothing forces it to (no timeout).      *)
LauncherExits ==
    /\ child = "running"
    /\ child' = "exited"
    /\ UNCHANGED <<signal_pipe_write_end, open, buffered, installed, arms, mpc, hpc,
                   hfd, signals, rpc, rfd, aborted, misuse>>

(* Every request has been served and no handler is executing.            *)
Quiescent ==
    /\ mpc = "finished" /\ \A t \in Threads : hpc[t] = "idle"
    /\ UNCHANGED vars

-----------------------------------------------------------------------------
Init ==
    /\ signal_pipe_write_end = ClosedFd
    /\ open = {}
    /\ buffered = [k \in 1..NumArms |-> 0]
    /\ installed = FALSE
    /\ arms = 0
    /\ mpc = "idle"
    /\ hpc = [t \in Threads |-> "idle"]
    /\ hfd = [t \in Threads |-> ClosedFd]
    /\ signals = 0
    /\ rpc = "none" /\ rfd = ClosedFd
    /\ child = "none"
    /\ aborted = FALSE
    /\ misuse = {}

Handler(t) ==
    \/ Deliver(t) \/ HandlerTake(t) \/ HandlerWrite(t) \/ HandlerRestore(t)
    \/ HandlerClose(t)

Request ==
    \/ HandleInterruptSignals \/ WaitLauncher \/ RestoreDefaultHandlers
    \/ StopHandlingInterruptSignals \/ Join

Next ==
    \/ \E t \in Threads : Handler(t)
    \/ Request
    \/ InterrupterRead
    \/ LauncherExits
    \/ Quiescent

(* A handler that has started runs to its end, and the request and        *)
(* interrupter threads keep running while they can.  Signal delivery and  *)
(* the launcher's own exit get no fairness.                               *)
Fairness ==
    /\ \A t \in Threads :
          WF_vars(HandlerTake(t) \/ HandlerWrite(t) \/ HandlerRestore(t) \/ HandlerClose(t))
    /\ WF_vars(Request)
    /\ WF_vars(InterrupterRead)

Spec == Init /\ [][Next]_vars /\ Fairness

-----------------------------------------------------------------------------
Slot == Fds \cup {ClosedFd, InUseFd}

TypeOK ==
    /\ signal_pipe_write_end \in Slot
    /\ open \subseteq Fds
    /\ buffered \in [1..NumArms -> 0..PipeCapacity]
    /\ installed \in BOOLEAN
    /\ arms \in 0..NumArms
    /\ mpc \in {"idle", "waiting", "stopping", "disarming", "joining", "finished"}
    /\ hpc \in [Threads -> {"idle", "entered", "taken", "written", "disabled"}]
    /\ hfd \in [Threads -> Slot]
    /\ signals \in 0..MaxSignals
    /\ rpc \in {"none", "reading", "done"} /\ rfd \in Fds \cup {ClosedFd}
    /\ child \in {"none", "running", "exited", "interrupted"}
    /\ aborted \in BOOLEAN
    /\ misuse \subseteq ({"write", "close"} \X Fds)

(* No handler invocation, request thread or interrupter thread ever       *)
(* writes to or closes a file descriptor that is already closed, whatever *)
(* the order of the atomic exchanges in InterruptHandler() and            *)
(* StopHandlingInterruptSignals().  (A closed fd number may be reused by  *)
(* an unrelated file.)                                                    *)
NoFdMisuse == misuse = {}

AllServed == mpc = "finished" /\ \A t \in Threads : hpc[t] = "idle"

(* The three-sentinel protocol releases the fd it guards: once every      *)
(* request has disarmed and no handler is executing, the fd each request  *)
(* put in the slot has been closed, by the request or by a handler that   *)
(* was executing when it disarmed.                                        *)
SlotFdReleased == AllServed => \A k \in 1..arms : <<k, SlotEnd>> \notin open

(* No file descriptor of any signal pipe outlives its request.            *)
PipeClosedAfterRequest == AllServed => open = {}

(* The refinement mapping: the request is armed from HandleInterruptSignals *)
(* until StopHandlingInterruptSignals swaps CLOSED_FD in, and disarmed     *)
(* until the interrupter thread is joined.                                *)
RequestState ==
    CASE mpc = "idle" -> "idle"
      [] mpc \in {"waiting", "stopping", "disarming"} -> "armed"
      [] mpc = "joining" -> "disarmed"
      [] mpc = "finished" -> "finished"

Bridge == INSTANCE SignalSlot
            WITH req <- RequestState, child <- child, arms <- arms, signals <- signals

(* The pipe, the three-sentinel slot and the three threads implement the  *)
(* bridge's safety promises: the launcher is interrupted only after a     *)
(* signal, a request disarms only once its launcher is gone, and a request *)
(* arms only when the previous one has finished.                          *)
SignalSlotSafety == Bridge!SafetySpec

(* ... and its liveness promise: a signal received while the launcher     *)
(* runs ends the launcher unless it exits first, and every request        *)
(* disarms and finishes.                                                   *)
SignalSlotSpec == Bridge!Spec
=============================================================================

------------------------------- MODULE Bridge -------------------------------
(***************************************************************************)
(* Bridge.Run (internal/console/bridge.go): a console session as three     *)
(* goroutines that block in reads and writes of a web socket and of a      *)
(* remote shell, and the teardown that has to end all of them.             *)
(*                                                                         *)
(* A write to the socket lasts until the browser takes the frame or the    *)
(* connection is gone; the frames of the exit and of the limits are        *)
(* written without the session's context, so cancelling does not end them. *)
(* After Close a read of the shell, and a wait for its exit, last until    *)
(* the host answers or its connection drops (sshexec.Session).             *)
(***************************************************************************)
EXTENDS Naturals

VARIABLES
    run,        \* Run: "run", "cancelled", "waiting" for the goroutines, "returned"
    out, inp,   \* pumpShellToWS and pumpWSToShell
    dog,        \* watchdog
    errCh,      \* errors in the channel
    shell,      \* "open", "eof" (its output has ended, the process has not), "closing",
                \* "exited" or "broken"
    socket,     \* "open" or "closed"
    limit,      \* the limit that has passed: "none", "idle" or "max"
    limits      \* the limits that are configured

bridgeVars == <<run, out, inp, dog, errCh, shell, socket, limit, limits>>

BridgeInit ==
    /\ run = "run" /\ out = "read" /\ inp = "read" /\ dog = "tick" /\ errCh = 0
    /\ shell = "open" /\ socket = "open" /\ limit = "none"
    /\ limits \in SUBSET {"idle", "max"}

Cancelled == run # "run"

-----------------------------------------------------------------------------
(* The shell, the browser and time *)

\* The output ends, the process does, or the SSH connection.
ShellEnds(how) ==
    /\ shell \in {"open", "eof"} \ {how} /\ shell' = how
    /\ UNCHANGED <<run, out, inp, dog, errCh, socket, limit, limits>>
\* The host answers the close, or its connection drops.
CloseAnswered ==
    /\ shell = "closing" /\ shell' = "exited"
    /\ UNCHANGED <<run, out, inp, dog, errCh, socket, limit, limits>>
BrowserLeaves ==
    /\ socket = "open" /\ socket' = "closed"
    /\ UNCHANGED <<run, out, inp, dog, errCh, shell, limit, limits>>
IdlePasses ==
    /\ "idle" \in limits /\ run = "run" /\ limit = "none" /\ limit' = "idle"
    /\ UNCHANGED <<run, out, inp, dog, errCh, shell, socket, limits>>
MaxPasses ==
    /\ "max" \in limits /\ run = "run" /\ limit # "max" /\ limit' = "max"
    /\ UNCHANGED <<run, out, inp, dog, errCh, shell, socket, limits>>

-----------------------------------------------------------------------------
(* pumpShellToWS *)

ReadOutput ==
    /\ out = "read" /\ shell = "open" /\ out' = "write"
    /\ UNCHANGED <<run, inp, dog, errCh, shell, socket, limit, limits>>
WriteTaken ==
    /\ out = "write" /\ socket = "open" /\ ~Cancelled /\ out' = "read"
    /\ UNCHANGED <<run, inp, dog, errCh, shell, socket, limit, limits>>
OutEnds == out' = "end" /\ errCh' = errCh + 1 /\ UNCHANGED <<run, inp, dog, shell, socket, limit, limits>>
WriteFails == out = "write" /\ (socket = "closed" \/ Cancelled) /\ OutEnds
ReadEOF ==
    /\ out = "read" /\ shell \in {"eof", "exited"} /\ out' = "wait"
    /\ UNCHANGED <<run, inp, dog, errCh, shell, socket, limit, limits>>
ReadFails == out = "read" /\ shell = "broken" /\ OutEnds
\* sendExit waits for the process to exit or the channel to close; its frame is
\* then taken by the browser, or refused by a closed socket.
WaitShell ==
    /\ out = "wait" /\ shell \in {"exited", "broken"} /\ out' = "exit"
    /\ UNCHANGED <<run, inp, dog, errCh, shell, socket, limit, limits>>
sendExit == out = "exit" /\ OutEnds

-----------------------------------------------------------------------------
(* pumpWSToShell *)

\* Any text frame is activity; one with keystrokes goes to the shell, a resize
\* and a malformed one do not.
ReadFrame(input) ==
    /\ inp = "read" /\ socket = "open" /\ ~Cancelled
    /\ inp' = IF input THEN "write" ELSE "read"
    /\ limit' = IF limit = "idle" THEN "none" ELSE limit
    /\ UNCHANGED <<run, out, dog, errCh, shell, socket, limits>>
StdinTaken ==
    /\ inp = "write" /\ shell \in {"open", "eof"} /\ inp' = "read"
    /\ UNCHANGED <<run, out, dog, errCh, shell, socket, limit, limits>>
InpEnds == inp' = "end" /\ errCh' = errCh + 1 /\ UNCHANGED <<run, out, dog, shell, socket, limit, limits>>
ReadFrameFails == inp = "read" /\ (socket = "closed" \/ Cancelled) /\ InpEnds
StdinFails == inp = "write" /\ shell \in {"exited", "broken"} /\ InpEnds

-----------------------------------------------------------------------------
(* watchdog *)

Tick ==
    /\ dog = "tick" /\ limit # "none" /\ dog' = "send"
    /\ UNCHANGED <<run, out, inp, errCh, shell, socket, limit, limits>>
\* sendErr, whose own error is ignored.
sendErr ==
    /\ dog = "send" /\ dog' = "end" /\ errCh' = errCh + 1
    /\ UNCHANGED <<run, out, inp, shell, socket, limit, limits>>
WatchdogDone ==
    /\ dog = "tick" /\ Cancelled /\ dog' = "end"
    /\ UNCHANGED <<run, out, inp, errCh, shell, socket, limit, limits>>

-----------------------------------------------------------------------------
(* Run *)

\* The first error ends the session: cancel and Close of the shell, with the
\* connection that was opened for it ...
CancelOnly ==
    /\ run = "run" /\ errCh > 0 /\ run' = "cancelled" /\ errCh' = errCh - 1
    /\ UNCHANGED <<out, inp, dog, shell, socket, limit, limits>>
CloseShell ==
    /\ run = "run" /\ errCh > 0 /\ run' = "cancelled" /\ errCh' = errCh - 1
    /\ shell' = IF shell \in {"open", "eof"} THEN "closing" ELSE shell
    /\ UNCHANGED <<out, inp, dog, socket, limit, limits>>
\* ... and of the socket.
CloseSocket ==
    /\ run = "cancelled" /\ run' = "waiting" /\ socket' = "closed"
    /\ UNCHANGED <<out, inp, dog, errCh, shell, limit, limits>>
Return ==
    /\ run = "waiting" /\ out = "end" /\ inp = "end" /\ dog = "end"
    /\ run' = "returned"
    /\ UNCHANGED <<out, inp, dog, errCh, shell, socket, limit, limits>>

Goroutines ==
    \/ ReadOutput \/ WriteTaken \/ WriteFails \/ ReadEOF \/ ReadFails
    \/ WaitShell \/ sendExit
    \/ (\E input \in BOOLEAN : ReadFrame(input)) \/ StdinTaken \/ ReadFrameFails \/ StdinFails
    \/ Tick \/ sendErr \/ WatchdogDone
    \/ CloseShell \/ CloseSocket \/ Return

BridgeNext ==
    \/ \E how \in {"eof", "exited", "broken"} : ShellEnds(how)
    \/ CloseAnswered \/ BrowserLeaves \/ IdlePasses \/ MaxPasses
    \/ Goroutines

\* A goroutine that can go on does; a write to the browser ends, by being taken
\* or by the connection's failure; a host answers a close or is dropped; the
\* clock runs.  Whether a shell reads its input or prints is up to it.
BridgeFairness ==
    /\ WF_bridgeVars(WriteTaken \/ WriteFails \/ ReadEOF \/ ReadFails \/ WaitShell \/ sendExit)
    /\ WF_bridgeVars(ReadFrameFails \/ StdinFails)
    /\ WF_bridgeVars(Tick \/ sendErr \/ WatchdogDone)
    /\ WF_bridgeVars(CloseShell \/ CloseSocket \/ Return)
    /\ WF_bridgeVars(CloseAnswered)
    /\ WF_bridgeVars(MaxPasses)

BridgeSpec == BridgeInit /\ [][BridgeNext]_bridgeVars /\ BridgeFairness

-----------------------------------------------------------------------------
(* Properties *)

\* No session outlives its end: once the shell, the browser, an error or the
\* limit has ended it, all three goroutines do and Run returns, which is when
\* its slot is given back.
SessionEnds == (run = "run" /\ ("max" \in limits \/ errCh > 0)) ~> (run = "returned")

=============================================================================

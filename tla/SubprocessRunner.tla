-------------------------- MODULE SubprocessRunner --------------------------
(***************************************************************************)
(* One call of SubprocessRunner.run: the child, the pipes between them,    *)
(* the timeout, the stop of a child that is late, wrong or not wanted any  *)
(* more; and the same call in a visible console, where a terminal host     *)
(* feeds the child and the controller polls for a completion record.       *)
(*                                                                         *)
(* Abstracted: a prompt is a number of chunks and an output a number of    *)
(* lines, a pipe holds Cap of either, and so does a transport's buffer;    *)
(* stderr is like stdout, but for the one place where it is told apart     *)
(* (Collect).  Whether a line is JSON is a choice.                         *)
(*                                                                         *)
(* An operator X_Y is a mutant of X, the code with a plausible bug Y that  *)
(* a property must catch.  Next uses none of them.                         *)
(***************************************************************************)
EXTENDS Integers

CONSTANTS
  Modes,      \* "hidden", and the console of "claude" or "codex" (keep_terminal_open)
  Prompt,     \* chunks of the prompt
  Lines,      \* lines the child has to print
  Cap,        \* what a pipe holds
  MaxOutput   \* lines kept of an output: max_output_bytes

ASSUME ModesAssumption == Modes \subseteq {"hidden", "claude", "codex"}
ASSUME SizesAssumption == /\ Prompt \in Nat /\ Lines \in Nat
                          /\ Cap \in Nat \ {0} /\ MaxOutput \in Nat

VARIABLES
  mode,        \* chosen by _use_visible_terminal
  ctl,         \* where the call is
  result,      \* what it returns or raises
  \* the child
  child,       \* not started, running, or gone
  hung,        \* it does nothing any more
  writing,     \* it is blocked in a write to a full pipe
  closed,      \* it has closed its stdin
  descendant,  \* a process it left behind keeps its pipes open
  toprint,     \* lines it has not printed yet
  \* the pipes
  unsent,      \* chunks in the writer's buffer
  inpipe,      \* chunks the child has not read
  outpipe,     \* lines nobody has taken
  \* what reads them
  consumer,    \* the task behind stdout (hidden)
  host,        \* the terminal host (visible)
  completion,  \* completion.json
  got,         \* lines taken
  log          \* lines kept

ctlVars   == <<ctl, result>>
childVars == <<child, hung, writing, closed, descendant, toprint>>
pipeVars  == <<unsent, inpipe, outpipe>>
readVars  == <<consumer, got, log>>
hostVars  == <<host, completion>>
vars      == <<mode, ctlVars, childVars, pipeVars, readVars, hostVars>>

Results == {"none", "ok", "timeout", "contract", "process", "lost", "untyped", "broken",
            "interrupted", "abandoned"}

End(outcome) == ctl' = "done" /\ result' = outcome

-----------------------------------------------------------------------------
(* The child.                                                              *)

ChildReads ==
  /\ child = "running" /\ ~hung /\ ~writing /\ inpipe > 0
  /\ inpipe' = inpipe - 1
  /\ UNCHANGED <<mode, ctlVars, childVars, unsent, outpipe, readVars, hostVars>>

ChildPrints ==
  /\ child = "running" /\ ~hung /\ toprint > 0
  /\ IF outpipe < Cap
     THEN toprint' = toprint - 1 /\ outpipe' = outpipe + 1 /\ writing' = FALSE
     ELSE writing' = TRUE /\ UNCHANGED <<toprint, outpipe>>
  /\ UNCHANGED <<mode, ctlVars, child, hung, closed, descendant, unsent, inpipe, readVars, hostVars>>

Exits == /\ child = "running"
         /\ child' = "gone" /\ descendant' \in BOOLEAN
         /\ UNCHANGED <<mode, ctlVars, hung, writing, closed, toprint, pipeVars, readVars, hostVars>>

\* It has read its prompt, or as much as it wanted of it, and printed what it had to say.
ChildFinishes == ~hung /\ (closed \/ (unsent = 0 /\ inpipe = 0)) /\ toprint = 0 /\ Exits

\* Or it ends early, of itself or by the signal of _stop.
ChildDies == Exits

\* It reads no more and runs on; what is left in the pipe is lost.
ChildCloses ==
  /\ child = "running" /\ ~hung /\ ~closed
  /\ closed' = TRUE /\ inpipe' = 0
  /\ UNCHANGED <<mode, ctlVars, child, hung, writing, descendant, toprint, unsent, outpipe,
                 readVars, hostVars>>

ChildHangs ==
  /\ child = "running" /\ ~hung
  /\ hung' = TRUE
  /\ UNCHANGED <<mode, ctlVars, child, writing, closed, descendant, toprint, pipeVars, readVars, hostVars>>

\* Whoever the pipe belongs to: the last writer is gone, it is empty.
AtEof == child = "gone" /\ ~descendant /\ outpipe = 0

Send == /\ unsent > 0 /\ inpipe < Cap /\ child = "running" /\ ~closed
        /\ unsent' = unsent - 1 /\ inpipe' = inpipe + 1
        /\ UNCHANGED outpipe

Take == /\ outpipe > 0
        /\ outpipe' = outpipe - 1 /\ got' = got + 1
        /\ UNCHANGED <<unsent, inpipe>>

Keep_OneMore == log' = IF log <= MaxOutput THEN log + 1 ELSE log

\* Neither the buffer of consume nor the log of _pump outgrows the limit.
Keep == log' = IF log < MaxOutput THEN log + 1 ELSE log

-----------------------------------------------------------------------------
(* The hidden call.                                                        *)

Start ==
  /\ ctl = "start"
  /\ child' = "running"
  /\ IF mode = "hidden" THEN ctl' = "drain" /\ UNCHANGED host
                        ELSE ctl' = "wait"  /\ host' = "feeding"
  /\ UNCHANGED <<mode, result, hung, writing, closed, descendant, toprint, pipeVars, readVars, completion>>

CannotStart ==
  /\ ctl = "start"
  /\ End("process")
  /\ UNCHANGED <<mode, childVars, pipeVars, readVars, hostVars>>

\* The event loop moves the prompt, during drain and after it.
Write ==
  /\ mode = "hidden" /\ ctl \notin {"start", "done"}
  /\ Send
  /\ UNCHANGED <<mode, ctlVars, childVars, readVars, hostVars>>

Consume_AfterDrain ==
  /\ mode = "hidden" /\ ctl \notin {"start", "drain", "done"}
  /\ consumer = "reading"
  /\ Take /\ Keep
  /\ UNCHANGED <<mode, ctlVars, childVars, consumer, hostVars>>

Consume ==
  /\ mode = "hidden" /\ ctl \notin {"start", "done"}
  /\ consumer = "reading"
  /\ Take /\ Keep
  /\ UNCHANGED <<mode, ctlVars, childVars, consumer, hostVars>>

\* A line that is not a JSON object, or one longer than StreamReader accepts.
ConsumeFails(how) ==
  /\ mode = "hidden" /\ ctl \notin {"start", "done"}
  /\ consumer = "reading"
  /\ Take
  /\ consumer' = how
  /\ UNCHANGED <<mode, ctlVars, childVars, log, hostVars>>

ConsumeEnds ==
  /\ mode = "hidden" /\ ctl \notin {"start", "done"}
  /\ consumer = "reading" /\ AtEof
  /\ consumer' = "eof"
  /\ UNCHANGED <<mode, ctlVars, childVars, pipeVars, got, log, hostVars>>

Drained ==
  /\ ctl = "drain" /\ unsent <= Cap
  /\ ctl' = "wait"
  /\ UNCHANGED <<mode, result, childVars, pipeVars, readVars, hostVars>>

\* Nobody can read the rest of the prompt any more: an OSError nobody expects,
\* outside the handler that stops the child, if it still runs.
DrainBroken ==
  /\ ctl = "drain" /\ unsent > 0
  /\ closed \/ (child = "gone" /\ ~descendant)
  /\ End("broken")
  /\ UNCHANGED <<mode, childVars, pipeVars, readVars, hostVars>>

Finish_ChildGone ==
  /\ mode = "hidden" /\ ctl = "wait" /\ child = "gone"
  /\ End("ok")
  /\ UNCHANGED <<mode, childVars, pipeVars, readVars, hostVars>>

\* gather() of both consumers and process.wait().
Finish ==
  /\ mode = "hidden" /\ ctl = "wait" /\ child = "gone" /\ consumer = "eof"
  /\ End("ok")
  /\ UNCHANGED <<mode, childVars, pipeVars, readVars, hostVars>>

\* _stop up to its first await: nothing to do if the child has been reaped.
Stop(outcome) == /\ result' = outcome
                 /\ ctl' = IF child = "gone" THEN "collect" ELSE "reap"

\* gather raises the error of a consumer; the other one reads on.
Fails ==
  /\ mode = "hidden" /\ ctl = "wait"
  /\ \/ consumer = "bad_json" /\ Stop("contract")
     \/ consumer = "too_long" /\ Stop("untyped")
  /\ UNCHANGED <<mode, childVars, pipeVars, readVars, hostVars>>

Cancel == /\ consumer' = IF consumer = "reading" THEN "cancelled" ELSE consumer
          /\ UNCHANGED <<got, log>>

TimesOut ==
  /\ mode = "hidden" /\ ctl = "wait"
  /\ Stop("timeout")
  /\ Cancel
  /\ UNCHANGED <<mode, childVars, pipeVars, hostVars>>

\* Ctrl+C, or a wave that cancels its workers.  In the gather it cancels the
\* consumers too.  The prompt is written outside the handler that stops the
\* child, and nothing shields _stop and the second gather: a cancellation in one
\* of those leaves the child as it is.
Interrupt ==
  /\ mode = "hidden"
  /\ \/ ctl = "wait" /\ Stop("interrupted") /\ Cancel
     \/ ctl \in {"drain", "reap", "collect"} /\ End("abandoned") /\ UNCHANGED readVars
  /\ UNCHANGED <<mode, childVars, pipeVars, hostVars>>

Reaped_Ungraced ==
  /\ mode = "hidden" /\ ctl = "reap"
  /\ ctl' = "collect"
  /\ UNCHANGED <<mode, result, childVars, pipeVars, readVars, hostVars>>

\* It went within the grace period.
Reaped ==
  /\ mode = "hidden" /\ ctl = "reap" /\ child = "gone"
  /\ ctl' = "collect"
  /\ UNCHANGED <<mode, result, childVars, pipeVars, readVars, hostVars>>

\* It did not: SIGKILL for the process group.
Kill ==
  /\ mode = "hidden" /\ ctl = "reap" /\ child = "running"
  /\ child' = "gone" /\ descendant' = FALSE
  /\ ctl' = "collect"
  /\ UNCHANGED <<mode, result, hung, writing, closed, toprint, pipeVars, readVars, hostVars>>

\* The second gather.  After an error the consumer of the other stream was not
\* cancelled and waits for its end of file, without a timeout.
Collect ==
  /\ ctl = "collect"
  /\ result \in {"timeout", "interrupted"} \/ ~descendant
  /\ End(result)
  /\ UNCHANGED <<mode, childVars, pipeVars, readVars, hostVars>>

-----------------------------------------------------------------------------
(* The terminal host: run_manifest.                                        *)

\* The whole prompt is written before the pumps start.
HostFeeds ==
  /\ host = "feeding"
  /\ \/ Send /\ UNCHANGED host
     \/ unsent = 0 /\ host' = "pumping" /\ UNCHANGED pipeVars
  /\ UNCHANGED <<mode, ctlVars, childVars, readVars, completion>>

HostPumps ==
  /\ host = "pumping"
  /\ Take /\ Keep
  /\ UNCHANGED <<mode, ctlVars, childVars, consumer, hostVars>>

HostJoins_ChildGone ==
  /\ host = "pumping" /\ child = "gone"
  /\ host' = "joined"
  /\ UNCHANGED <<mode, ctlVars, childVars, pipeVars, readVars, completion>>

HostJoins ==
  /\ host = "pumping" /\ AtEof
  /\ host' = "joined"
  /\ UNCHANGED <<mode, ctlVars, childVars, pipeVars, readVars, completion>>

HostRecords ==
  /\ host = "joined"
  /\ completion' = "ok"
  /\ host' = IF mode = "codex" THEN "enter" ELSE "gone"
  /\ UNCHANGED <<mode, ctlVars, childVars, pipeVars, readVars>>

HostCloses ==
  /\ host = "enter"
  /\ host' = "gone"
  /\ UNCHANGED <<mode, ctlVars, childVars, pipeVars, readVars, completion>>

\* The CLI was not there, its pipe broke under the prompt, or Ctrl+C was typed in
\* the console; while it waits for Enter this overwrites the record it made.
HostFails ==
  /\ host \in {"feeding", "pumping", "joined", "enter"}
  /\ completion' = "error"
  /\ host' = "gone"
  /\ UNCHANGED <<mode, ctlVars, childVars, pipeVars, readVars>>

\* The window is closed: no record.
HostDies ==
  /\ host \in {"feeding", "pumping", "joined", "enter"}
  /\ host' = "gone"
  /\ child' \in {child, "gone"}
  /\ UNCHANGED <<mode, ctlVars, hung, writing, closed, descendant, toprint, pipeVars, readVars, completion>>

-----------------------------------------------------------------------------
(* The visible call.                                                       *)

Poll_ExitFirst ==
  /\ mode # "hidden" /\ ctl = "wait"
  /\ \/ host = "gone" /\ End("lost")
     \/ host # "gone" /\ completion # "none" /\ ctl' = "read" /\ UNCHANGED result
  /\ UNCHANGED <<mode, childVars, pipeVars, readVars, hostVars>>

\* One turn of the polling loop; it does not await between its two tests.
Poll ==
  /\ mode # "hidden" /\ ctl = "wait"
  /\ \/ completion # "none" /\ ctl' = "read" /\ UNCHANGED result
     \/ completion = "none" /\ host = "gone" /\ End("lost")
  /\ UNCHANGED <<mode, childVars, pipeVars, readVars, hostVars>>

StopHost(outcome) == /\ result' = outcome
                     /\ ctl' = IF host = "gone" THEN "done" ELSE "host_reap"

PollTimesOut ==
  /\ mode # "hidden" /\ ctl = "wait"
  /\ StopHost("timeout")
  /\ UNCHANGED <<mode, childVars, pipeVars, readVars, hostVars>>

\* keep_terminal_open also keeps an invocation open that is not finished.  Out of
\* the wait for the console to close, and out of _stop, it goes at once.
PollInterrupted ==
  /\ \/ mode = "claude" /\ ctl = "wait" /\ StopHost("interrupted")
     \/ mode = "codex"  /\ ctl = "wait" /\ End("interrupted")
     \/ ctl \in {"close", "host_reap"} /\ End("abandoned")
  /\ UNCHANGED <<mode, childVars, pipeVars, readVars, hostVars>>

\* CTRL_BREAK ends the host, and the child unless it ignores it; after the
\* grace period taskkill ends both.
HostReaped ==
  /\ ctl = "host_reap"
  /\ host' = "gone"
  /\ child' \in {child, "gone"}
  /\ End(result)
  /\ UNCHANGED <<mode, hung, writing, closed, descendant, toprint, pipeVars, readVars, completion>>

\* The record, then the log it promises, line by line.  A log that was cut
\* within a line ends in one that is not JSON.
Read ==
  /\ ctl = "read"
  /\ \/ completion = "error" /\ End("process")
     \/ completion = "ok" /\ End("contract")
     \/ completion = "ok" /\ mode = "codex" /\ End("ok")
     \/ completion = "ok" /\ mode = "claude" /\ ctl' = "close" /\ result' = "ok"
  /\ UNCHANGED <<mode, childVars, pipeVars, readVars, hostVars>>

\* The host of Claude has three seconds to go.
Close ==
  /\ ctl = "close"
  /\ StopHost("ok")
  /\ UNCHANGED <<mode, childVars, pipeVars, readVars, hostVars>>

-----------------------------------------------------------------------------

Init ==
  /\ mode \in Modes /\ ctl = "start" /\ result = "none"
  /\ child = "none" /\ hung = FALSE /\ writing = FALSE /\ closed = FALSE /\ descendant = FALSE
  /\ toprint = Lines
  /\ unsent = Prompt /\ inpipe = 0 /\ outpipe = 0
  /\ consumer = "reading" /\ got = 0 /\ log = 0
  /\ host = "none" /\ completion = "none"

Child   == ChildReads \/ ChildPrints \/ ChildFinishes \/ ChildDies \/ ChildCloses \/ ChildHangs
Hidden  == \/ Write \/ Consume \/ ConsumeFails("bad_json") \/ ConsumeFails("too_long")
           \/ ConsumeEnds \/ Drained \/ DrainBroken \/ Finish \/ Fails \/ TimesOut
           \/ Interrupt \/ Reaped \/ Kill \/ Collect
Host    == HostFeeds \/ HostPumps \/ HostJoins \/ HostRecords \/ HostCloses \/ HostFails \/ HostDies
Visible == Poll \/ PollTimesOut \/ PollInterrupted \/ HostReaped \/ Read \/ Close
Next    == Start \/ CannotStart \/ Child \/ Hidden \/ Host \/ Visible

\* asyncio runs what can run, and its timers fire.  A child that is not hung
\* reads, prints and finishes; nothing is assumed of the host or of the user.
Fairness ==
  /\ WF_vars(Start) /\ WF_vars(Write) /\ WF_vars(Consume) /\ WF_vars(ConsumeEnds)
  /\ WF_vars(Drained) /\ WF_vars(DrainBroken) /\ WF_vars(TimesOut)
  /\ WF_vars(Kill) /\ WF_vars(Reaped) /\ WF_vars(Collect)
  /\ WF_vars(PollTimesOut) /\ WF_vars(HostReaped) /\ WF_vars(Read) /\ WF_vars(Close)
  /\ WF_vars(ChildReads) /\ WF_vars(ChildPrints) /\ WF_vars(ChildFinishes)

Spec     == Init /\ [][Next]_vars
FairSpec == Spec /\ Fairness

-----------------------------------------------------------------------------

TypeOK ==
  /\ mode \in Modes
  /\ ctl \in {"start", "drain", "wait", "reap", "collect", "host_reap", "read", "close", "done"}
  /\ result \in Results
  /\ child \in {"none", "running", "gone"}
  /\ hung \in BOOLEAN /\ writing \in BOOLEAN /\ closed \in BOOLEAN /\ descendant \in BOOLEAN
  /\ toprint \in 0..Lines /\ unsent \in 0..Prompt
  /\ inpipe \in 0..Cap /\ outpipe \in 0..Cap
  /\ consumer \in {"reading", "bad_json", "too_long", "cancelled", "eof"}
  /\ got \in 0..Lines /\ log \in 0..MaxOutput
  /\ host \in {"none", "feeding", "pumping", "joined", "enter", "gone"}
  /\ completion \in {"none", "ok", "error"}

\* A result is returned only of a child that is gone, with every line it ever
\* printed, or as many of them as the limit keeps: neither pipe is read after
\* the fact (gather in run; the joins before the record in run_manifest).
ResultIsComplete ==
  ctl = "done" /\ result = "ok" =>
    /\ child = "gone"
    /\ got = Lines - toprint
    /\ log = IF got < MaxOutput THEN got ELSE MaxOutput

\* A host that recorded its completion before it went is never taken for one
\* that did not, however its exit and the polling interleave.
CompletionNotMissed == result = "lost" => completion = "none"

\* What a call may leave behind.  Hidden: a running child only if it was cut off
\* while it wrote the prompt or within _stop, or if the child closed its stdin
\* under the prompt; so never when it returns, or raises a timeout, an error of a
\* consumer or an interruption of the gather, each after _stop came to its end.
\* In a console: its host never when it raises a timeout, and that of Claude also
\* never when it returns or raises an interruption of the poll (_stop, and the
\* handlers in run and _run_visible_terminal that call it).
StoppedIsReaped ==
  ctl = "done" =>
    /\ mode = "hidden" /\ child = "running" =>
         result = "abandoned" \/ (result = "broken" /\ closed)
    /\ mode = "claude" /\ result \in {"ok", "timeout", "interrupted"} => host = "gone"
    /\ mode = "codex" /\ result = "timeout" => host = "gone"

\* What the timeout does not cover: the prompt nobody reads though a process
\* still holds the pipe, because the child hangs, left a descendant behind, or is
\* not read itself after a bad line; and, after an error, the end of a stream
\* that a descendant keeps open.
Stuck == \/ ctl = "drain" /\ ~closed /\ (hung \/ descendant \/ consumer \in {"bad_json", "too_long"})
         \/ ctl = "collect" /\ descendant

\* Every call ends, unless it is stuck in one of these ways: large prompts and
\* large outputs do not block each other, and the timeout covers the rest.
CallEnds == <>(ctl = "done") \/ <>[]Stuck

-----------------------------------------------------------------------------
(* Why: the invariant the safety properties follow from.                   *)

\* No line is lost or invented on its way; the limit cuts the copy that is kept.
LinesInv ==
  /\ got + outpipe + toprint = Lines
  /\ consumer \notin {"bad_json", "too_long"} => log = IF got < MaxOutput THEN got ELSE MaxOutput

\* Whoever says that the child is through: a consumer, the host, its record.
Through == \/ consumer = "eof" \/ host \in {"joined", "enter"}
           \/ completion = "ok" \/ result = "ok"
ThroughInv ==
  /\ Through => child = "gone" /\ outpipe = 0
  /\ result = "ok" => consumer \notin {"bad_json", "too_long"}

\* Which outcome is under way where.
OutcomeInv ==
  /\ mode = "hidden" => host = "none" /\ completion = "none"
  /\ mode # "hidden" => consumer = "reading"
  /\ ctl \in {"drain", "reap", "collect"} => mode = "hidden"
  /\ ctl \in {"read", "close", "host_reap"} => mode # "hidden"
  /\ ctl = "start" => child = "none" /\ host = "none" /\ completion = "none"
  /\ ctl \in {"start", "drain", "wait", "read"} => result = "none"
  /\ ctl = "read" => completion # "none"
  /\ ctl = "collect" => child # "running"
  /\ ctl \in {"reap", "collect"} => result \in {"timeout", "contract", "untyped", "interrupted"}
  /\ ctl = "close" => mode = "claude" /\ result = "ok"
  /\ ctl = "host_reap" => result \in {"ok", "timeout", "interrupted"}
  /\ result = "lost" => completion = "none" /\ host = "gone"

CallInv == TypeOK /\ LinesInv /\ ThroughInv /\ OutcomeInv /\ StoppedIsReaped

-----------------------------------------------------------------------------
(* What the documentation promises and the code does not do.               *)

\* "The controller ... can terminate the host process tree on timeout or
\* Ctrl+C" (docs/security-model.md): no agent runs on after an interrupted call.
InterruptStopsAgent == ctl = "done" /\ result = "interrupted" => child # "running"

=============================================================================

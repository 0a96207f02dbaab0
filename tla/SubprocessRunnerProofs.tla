----------------------- MODULE SubprocessRunnerProofs -----------------------
(***************************************************************************)
(* Proofs about SubprocessRunner, for prompts and outputs of any length,   *)
(* pipes of any capacity and any output limit.  CallInv is inductive: the  *)
(* lines between the child and what reads them are conserved, and whoever  *)
(* says that the child is through says so of an empty pipe.                *)
(***************************************************************************)
EXTENDS SubprocessRunner, TLAPS

LEMMA InitCall == Init => CallInv
<1> SUFFICES ASSUME Init PROVE CallInv
  OBVIOUS
<1> USE SizesAssumption, ModesAssumption DEF Init
<1>1. TypeOK
  <2>1. mode \in Modes /\ ctl = "start" /\ result = "none"
    OBVIOUS
  <2>2. hung \in BOOLEAN /\ writing \in BOOLEAN /\ closed \in BOOLEAN /\ descendant \in BOOLEAN
    OBVIOUS
  <2>3. /\ toprint \in 0..Lines /\ unsent \in 0..Prompt /\ got \in 0..Lines
        /\ inpipe \in 0..Cap /\ outpipe \in 0..Cap /\ log \in 0..MaxOutput
    OBVIOUS
  <2>4. QED BY <2>1, <2>2, <2>3 DEF TypeOK, Results
<1>2. LinesInv         BY DEF LinesInv
<1>3. ThroughInv       BY DEF ThroughInv, Through
<1>4. OutcomeInv       BY DEF OutcomeInv
<1>5. StoppedIsReaped  BY DEF StoppedIsReaped
<1>6. QED BY <1>1, <1>2, <1>3, <1>4, <1>5 DEF CallInv

LEMMA ChildStep == CallInv /\ Child => CallInv'
<1> SUFFICES ASSUME CallInv, Child PROVE CallInv'
  OBVIOUS
<1> USE SizesAssumption, ModesAssumption
    DEF CallInv, TypeOK, LinesInv, Through, ThroughInv, OutcomeInv, StoppedIsReaped,
        Results, ctlVars, childVars, pipeVars, readVars, hostVars
<1>1. CASE ChildReads     BY <1>1 DEF ChildReads
<1>2. CASE ChildPrints
  <2>1. CASE outpipe < Cap
    <3>1. /\ toprint' = toprint - 1 /\ outpipe' = outpipe + 1 /\ toprint > 0
          /\ child = "running" /\ child' = child /\ hung' = hung /\ closed' = closed
          /\ descendant' = descendant
          /\ UNCHANGED <<mode, ctlVars, unsent, inpipe, readVars, hostVars>>
      BY <1>2, <2>1 DEF ChildPrints
    <3>2. writing' \in BOOLEAN
      BY <1>2, <2>1 DEF ChildPrints
    <3>3. QED BY <3>1, <3>2, <2>1
  <2>2. CASE ~(outpipe < Cap)
    <3>1. /\ UNCHANGED <<mode, ctlVars, child, hung, closed, descendant, toprint, outpipe,
                         unsent, inpipe, readVars, hostVars>>
      BY <1>2, <2>2 DEF ChildPrints
    <3>2. writing' \in BOOLEAN
      BY <1>2, <2>2 DEF ChildPrints
    <3>3. QED BY <3>1, <3>2
  <2>3. QED BY <2>1, <2>2
<1>3. CASE ChildFinishes  BY <1>3 DEF ChildFinishes, Exits
<1>4. CASE ChildDies      BY <1>4 DEF ChildDies, Exits
<1>5. CASE ChildHangs     BY <1>5 DEF ChildHangs
<1>6. CASE ChildCloses    BY <1>6 DEF ChildCloses
<1>7. QED BY <1>1, <1>2, <1>3, <1>4, <1>5, <1>6 DEF Child

LEMMA HiddenStep == CallInv /\ Hidden => CallInv'
<1> SUFFICES ASSUME CallInv, Hidden PROVE CallInv'
  OBVIOUS
<1> USE SizesAssumption, ModesAssumption
    DEF CallInv, TypeOK, LinesInv, Through, ThroughInv, OutcomeInv, StoppedIsReaped,
        Results, End, Take, ctlVars, childVars, pipeVars, readVars, hostVars
<1>1. CASE Write           BY <1>1 DEF Write, Send
<1>2. CASE Consume         BY <1>2 DEF Consume, Keep
<1>3. ASSUME NEW how \in {"bad_json", "too_long"}, ConsumeFails(how) PROVE CallInv'
  BY <1>3 DEF ConsumeFails
<1>4. CASE ConsumeEnds     BY <1>4 DEF ConsumeEnds, AtEof
<1>5. CASE Drained         BY <1>5 DEF Drained
<1>6. CASE DrainBroken     BY <1>6 DEF DrainBroken
<1>7. CASE Finish          BY <1>7 DEF Finish
<1>8. CASE Fails           BY <1>8 DEF Fails, Stop
<1>9. CASE TimesOut        BY <1>9 DEF TimesOut, Stop, Cancel
<1>10. CASE Interrupt      BY <1>10 DEF Interrupt, Stop, Cancel
<1>11. CASE Reaped         BY <1>11 DEF Reaped
<1>12. CASE Kill           BY <1>12 DEF Kill
<1>13. CASE Collect        BY <1>13 DEF Collect
<1>14. QED
  BY <1>1, <1>2, <1>3, <1>4, <1>5, <1>6, <1>7, <1>8, <1>9, <1>10, <1>11, <1>12, <1>13
  DEF Hidden

LEMMA HostStep == CallInv /\ Host => CallInv'
<1> SUFFICES ASSUME CallInv, Host PROVE CallInv'
  OBVIOUS
<1> USE SizesAssumption, ModesAssumption
    DEF CallInv, TypeOK, LinesInv, Through, ThroughInv, OutcomeInv, StoppedIsReaped,
        Results, ctlVars, childVars, pipeVars, readVars, hostVars
<1>1. CASE HostFeeds    BY <1>1 DEF HostFeeds, Send
<1>2. CASE HostPumps    BY <1>2 DEF HostPumps, Take, Keep
<1>3. CASE HostJoins    BY <1>3 DEF HostJoins, AtEof
<1>4. CASE HostRecords  BY <1>4 DEF HostRecords
<1>5. CASE HostCloses   BY <1>5 DEF HostCloses
<1>6. CASE HostFails    BY <1>6 DEF HostFails
<1>7. CASE HostDies     BY <1>7 DEF HostDies
<1>8. QED BY <1>1, <1>2, <1>3, <1>4, <1>5, <1>6, <1>7 DEF Host

LEMMA VisibleStep == CallInv /\ Visible => CallInv'
<1> SUFFICES ASSUME CallInv, Visible PROVE CallInv'
  OBVIOUS
<1> USE SizesAssumption, ModesAssumption
    DEF CallInv, TypeOK, LinesInv, Through, ThroughInv, OutcomeInv, StoppedIsReaped,
        Results, End, ctlVars, childVars, pipeVars, readVars, hostVars
<1>1. CASE Poll             BY <1>1 DEF Poll
<1>2. CASE PollTimesOut     BY <1>2 DEF PollTimesOut, StopHost
<1>3. CASE PollInterrupted  BY <1>3 DEF PollInterrupted, StopHost
<1>4. CASE HostReaped       BY <1>4 DEF HostReaped
<1>5. CASE Read             BY <1>5 DEF Read
<1>6. CASE Close            BY <1>6 DEF Close, StopHost
<1>7. QED BY <1>1, <1>2, <1>3, <1>4, <1>5, <1>6 DEF Visible

LEMMA CallStep == CallInv /\ [Next]_vars => CallInv'
<1> SUFFICES ASSUME CallInv, [Next]_vars PROVE CallInv'
  OBVIOUS
<1> USE SizesAssumption, ModesAssumption
    DEF ctlVars, childVars, pipeVars, readVars, hostVars
<1>1. CASE Start
  BY <1>1 DEF Start, CallInv, TypeOK, LinesInv, Through, ThroughInv, OutcomeInv, StoppedIsReaped, Results
<1>2. CASE CannotStart
  BY <1>2 DEF CannotStart, End, CallInv, TypeOK, LinesInv, Through, ThroughInv, OutcomeInv,
              StoppedIsReaped, Results
<1>3. CASE UNCHANGED vars
  BY <1>3 DEF vars, CallInv, TypeOK, LinesInv, Through, ThroughInv, OutcomeInv, StoppedIsReaped, Results
<1>4. QED
  BY <1>1, <1>2, <1>3, ChildStep, HiddenStep, HostStep, VisibleStep DEF Next

\* The invariant that links pipes, readers and outcome holds in every state.
LEMMA CallInvariant == Spec => []CallInv
<1>1. QED BY InitCall, CallStep, PTL DEF Spec

\* Places, outcomes and counters stay in their ranges: in particular neither
\* the buffer nor the log outgrows max_output_bytes (consume, _pump).
THEOREM RunnerTypeCorrect == Spec => []TypeOK
<1>1. CallInv => TypeOK
  BY DEF CallInv
<1>2. QED BY <1>1, CallInvariant, PTL

\* A call that returns a result has taken every line the child printed, in
\* either mode: gather and the two joins suffice, however the steps interleave.
THEOREM ResultsComplete == Spec => []ResultIsComplete
<1>1. CallInv => ResultIsComplete
  BY SizesAssumption DEF CallInv, TypeOK, LinesInv, Through, ThroughInv, ResultIsComplete
<1>2. QED BY <1>1, CallInvariant, PTL

\* The polling loop never calls a host lost that recorded its completion.
THEOREM CompletionsSeen == Spec => []CompletionNotMissed
<1>1. CallInv => CompletionNotMissed
  BY DEF CallInv, OutcomeInv, CompletionNotMissed
<1>2. QED BY <1>1, CallInvariant, PTL

\* A child that still runs after a hidden call was left by a cancellation outside
\* the handlers, or closed its stdin under the prompt; a console is left only
\* where StoppedIsReaped says so (_stop and those who call it).
THEOREM ChildrenReaped == Spec => []StoppedIsReaped
<1>1. CallInv => StoppedIsReaped
  BY DEF CallInv
<1>2. QED BY <1>1, CallInvariant, PTL

=============================================================================

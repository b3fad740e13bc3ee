--------------------------- MODULE MCWebsidDriver ---------------------------
(***************************************************************************)
(* Model checking of WebsidDriver: the environment of each run is chosen   *)
(* in its cfg file.  What is only promised as long as nothing has gone     *)
(* wrong is stated with the history variable calm.                         *)
(***************************************************************************)
EXTENDS WebsidDriver

VARIABLE calm   \* no client has died, each close came while the kernel thread
                \* had ended or polled for a script, and no timer overflowed

mcvars == <<vars, calm>>

ClosesEarly == uPc = "loop" /\ ~ (NoKernelThread \/ (At("poll") /\ feed = Clear))
Fault ==
  \/ uPc \in Recording /\ uPc' = "release" /\ (uPc # "loop" \/ ClosesEarly)
  \/ status # status' /\ status' = "COUNTER_OVERFLOW"

MCInit == Init /\ calm = TRUE
MCNext == Next /\ calm' = (calm /\ ~ Fault)
MCSpec == MCInit /\ [][MCNext]_mcvars /\ WF_vars(Player) /\ WF_vars(Client)

\* websid_driver_api.h:17: as long as no client died, nobody closed the device
\* while a script was handed over or played and no timer overflowed, a buffer
\* is owned by one side only.
ExclusiveWhileCalm == calm => ExclusiveBuffer

\* websid_module.c:201: a device that was closed in peace is silent, and nothing
\* of the session is left that the next one could meet: no thread that runs or
\* is about to, and no buffer on offer.
NothingLeft == uPc = "closed" => thread = 0 /\ ready = <<>> /\ fetch = Clear
CleanWhileCalm == calm => MuteWhenClosed /\ NothingLeft

\* websid_module.c:177 and :337: the kernel thread finds no broken protocol in
\* the first session, whatever happens, nor later as long as nothing went wrong.
ProtocolKept ==
  session <= 1 \/ calm => status \notin {"PREVIOUS_FETCH_NOT_CLEARED", "WRONG_FEED_BUFFER"}

\* Over all sessions, the SID gets every recorded script once and in order.
InOrderWhileCalm ==
  [][calm' /\ heard' # heard =>
       heard' = (IF firstScript > heard THEN firstScript ELSE heard + 1)]_mcvars
=============================================================================

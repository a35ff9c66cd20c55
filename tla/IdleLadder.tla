------------------------------ MODULE IdleLadder -----------------------------
(***************************************************************************)
(* What the idle machine of gsd-power promises, without the watches, the   *)
(* settings and the devices: a ladder of modes that an active session goes *)
(* down rung by rung or several at once and leaves only for the top, a     *)
(* temporary stay at the top that remembers where to fall back to, and a   *)
(* way back for the user wherever the session stands.  PowerIdle           *)
(* implements it.                                                          *)
(***************************************************************************)
EXTENDS Integers

VARIABLES
  active,    \* the session is active
  mode,      \* how idle it is
  unidle,    \* a temporary stay at the top
  fallback,  \* the mode that ends the stay
  way_back   \* user activity will be noticed

lvars == <<active, mode, unidle, fallback, way_back>>

Top    == 0
Bottom == 3
Rungs  == Top..Bottom

LadderTypeOK ==
  /\ active \in BOOLEAN /\ unidle \in BOOLEAN /\ way_back \in BOOLEAN
  /\ mode \in Rungs /\ fallback \in Rungs

LadderInit ==
  /\ active \in BOOLEAN
  /\ mode = Top /\ fallback = Top
  /\ unidle = FALSE /\ way_back = FALSE

\* An idle trigger, or the screensaver: only an active session goes down, only
\* further down, and never without a way back.
Deepen ==
  /\ active
  /\ mode' \in Rungs /\ mode' > mode
  /\ way_back' = TRUE
  /\ UNCHANGED <<active, unidle, fallback>>

\* The user is watched for, though nothing happened yet.
Expect == way_back' = TRUE /\ UNCHANGED <<active, mode, unidle, fallback>>

\* A session that may not go idle any more; an inactive one stays as it is.
StandDown ==
  /\ mode' = IF active THEN Top ELSE mode
  /\ unidle' = FALSE
  /\ UNCHANGED <<active, fallback, way_back>>

UserReturns ==
  /\ way_back /\ way_back' = FALSE
  /\ mode' = IF active THEN Top ELSE mode
  /\ unidle' = FALSE
  /\ UNCHANGED <<active, fallback>>

\* The temporary stay: it begins half way down, remembers any deeper trigger,
\* and ends where it was told to, or just ends.
StepAside ==
  /\ active /\ ~unidle /\ mode # Top
  /\ unidle' = TRUE /\ fallback' = mode /\ mode' = Top
  /\ UNCHANGED <<active, way_back>>

Remember ==
  /\ unidle /\ fallback' \in Rungs \ {Top}
  /\ UNCHANGED <<active, mode, unidle, way_back>>

FallBack ==
  /\ unidle /\ unidle' = FALSE
  /\ mode' \in {mode, fallback}
  /\ mode' # mode => active
  /\ UNCHANGED <<active, fallback, way_back>>

Switch ==
  /\ active' = ~active
  /\ mode' = IF active' THEN Top ELSE mode
  /\ unidle' \in {unidle, FALSE}
  /\ UNCHANGED <<fallback, way_back>>

LadderNext ==
  \/ Deepen
  \/ Expect
  \/ StandDown
  \/ UserReturns
  \/ StepAside
  \/ Remember
  \/ FallBack
  \/ Switch

LadderSpec == LadderInit /\ [][LadderNext]_lvars

-------------------------------------------------------------------------------

\* Whoever is not at the top of an active session, or only visits it, can be
\* brought back to it by the user.
Escapable == (active /\ mode # Top) \/ unidle => way_back
==============================================================================

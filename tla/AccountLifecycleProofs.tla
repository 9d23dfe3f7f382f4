----------------------- MODULE AccountLifecycleProofs -----------------------
(***************************************************************************)
(* The account row stays coherent, and carries no key of another           *)
(* credential, whatever the requests, the credentials and the order of the *)
(* operations.                                                             *)
(***************************************************************************)
EXTENDS AccountLifecycle, TLAPS

\* A row that makes sense, with a key of its own credential.
Sound(row) == row \in Rows /\ Coherent(row) /\ row.key \in {None, row.cookie}

USE DEF Sound

LEMMA InitLifecycleInv == Init => LifecycleInv
  BY LifecycleAssumption
     DEF Init, LifecycleInv, TypeOK, RowIsCoherent, KeyOfCookie, Coherent, Protected,
         Fresh, Idle, OpKinds, Rows, Statuses, Reasons, Marks, Readings

-----------------------------------------------------------------------------
(* What each kind of write makes of a sound row.                           *)

LEMMA ResetIsSound ==
  ASSUME NEW row, Sound(row), NEW snap, Sound(snap), NEW c \in Cookies
  PROVE  Sound(ResetFor(row, snap, c))
  <1> DEFINE new == ResetFor(row, snap, c)
             status == IF snap.reason = "manual" THEN "disabled" ELSE "pending"
             reason == IF snap.reason = "manual" THEN "manual" ELSE "none"
             abandoned == snap.why = "manual" /\ snap.abandoned
             why == IF snap.why = "manual" THEN "manual" ELSE "none"
  <1>1. new = [row EXCEPT !.cookie = c, !.key = None, !.status = status, !.reason = reason,
                          !.abandoned = abandoned, !.why = why, !.member = "unknown",
                          !.monthly = "unknown", !.short = FALSE]
    BY Zenon DEF ResetFor
  <1>2. /\ status \in Statuses /\ reason \in Reasons /\ abandoned \in BOOLEAN /\ why \in Marks
        /\ Protected(reason) => status = "disabled"
        /\ status \in {"active", "pending"} => reason = "none"
        /\ abandoned => why # "none"
        /\ why \notin {"risk_control", "monthly_limit"}
    BY DEF Statuses, Reasons, Marks, Protected
  <1> HIDE DEF new, status, reason, abandoned, why
  <1>3. new \in Rows
    BY <1>1, <1>2 DEF Rows, Readings
  <1>4. /\ new.key = None /\ new.status = status /\ new.reason = reason
        /\ new.abandoned = abandoned /\ new.why = why
    BY <1>1 DEF Rows
  <1>5. Coherent(new)
    BY <1>2, <1>4 DEF Coherent
  <1>6. Sound(new)
    BY <1>3, <1>4, <1>5
  <1> QED BY <1>6 DEF new

LEMMA StatusIsSound ==
  ASSUME NEW row, Sound(row), NEW s \in Statuses
  PROVE  Sound(WithStatus(row, s))
  BY DEF WithStatus, Coherent, Protected, Rows, Statuses, Reasons, Marks

LEMMA MarkIsSound ==
  ASSUME NEW row, Sound(row), NEW b \in BOOLEAN
  PROVE  Sound([row EXCEPT !.abandoned = b, !.why = "manual"])
  BY DEF Coherent, Protected, Rows, Reasons, Marks

LEMMA SettingsAreSound ==
  ASSUME NEW row, Sound(row), NEW snap, Sound(snap), NEW body \in Bodies
  PROVE  Sound(Settings(row, snap, body))
  <1> DEFINE changed == body.cookie # None /\ body.cookie # snap.cookie
             reset == IF changed THEN ResetFor(row, snap, body.cookie) ELSE row
             set == IF body.status # None THEN WithStatus(reset, body.status) ELSE reset
  <1>1. Sound(reset)
    <2>1. CASE changed
      <3>1. body.cookie \in Cookies
        BY <2>1 DEF Bodies
      <3> QED BY <2>1, <3>1, ResetIsSound
    <2> QED BY <2>1
  <1>2. Sound(set)
    <2>1. CASE body.status # None
      <3>1. body.status \in Statuses
        BY <2>1 DEF Bodies
      <3> HIDE DEF reset
      <3> QED BY <1>1, <2>1, <3>1, StatusIsSound
    <2> QED BY <1>1, <2>1
  <1>3. CASE body.abandoned # None
    <2>1. body.abandoned \in BOOLEAN
      BY <1>3 DEF Bodies
    <2>2. Settings(row, snap, body) = [set EXCEPT !.abandoned = body.abandoned, !.why = "manual"]
      BY <1>3 DEF Settings
    <2> HIDE DEF set
    <2> QED BY <1>2, <2>1, <2>2, MarkIsSound
  <1>4. CASE body.abandoned = None
    BY <1>2, <1>4 DEF Settings
  <1> QED BY <1>3, <1>4

LEMMA CondemnedIsSound ==
  ASSUME NEW row, Sound(row)
  PROVE  /\ Sound(Condemned(row))
         /\ Condemned(row).cookie = row.cookie
  BY DEF Condemned, Coherent, Protected, Rows, Statuses, Reasons, Marks

-----------------------------------------------------------------------------

\* LifecycleInv, said of the row and of what the operation has read.
LEMMA InvAsParts ==
  LifecycleInv <=>
    /\ Sound(acct)
    /\ calls \in [Requests -> {"none", "sent", "rejected"}]
    /\ op.kind \in OpKinds
    /\ op.kind \in {"refresh", "refresh_save", "check", "settings"} =>
          Sound(op.snap) /\ op.snap.cookie = acct.cookie
    /\ op.kind \in {"refresh_save", "refresh_error", "invalidate"} =>
          op.cur \in Rows /\ Coherent(op.cur)
    /\ op.kind = "refresh_save" => op.page \in Pages
    /\ op.kind = "refresh_error" => op.expired \in BOOLEAN
    /\ op.kind = "settings" => op.body \in Bodies
  BY DEF LifecycleInv, TypeOK, RowIsCoherent, KeyOfCookie

\* A write that ends the operation only has to leave a sound row.
LEMMA WriteThenUnlock ==
  ASSUME LifecycleInv, Sound(acct'), Unlock, UNCHANGED calls
  PROVE  LifecycleInv'
  <1>1. op'.kind = "none"
    BY DEF Unlock, Idle
  <1>2. calls' \in [Requests -> {"none", "sent", "rejected"}]
    BY InvAsParts
  <1> QED
    BY <1>1, <1>2
       DEF LifecycleInv, TypeOK, RowIsCoherent, KeyOfCookie, OpKinds

LEMMA RefreshSavesSound ==
  ASSUME LifecycleInv, RefreshSaves
  PROVE  Sound(acct')
  <1> DEFINE cur == op.cur
             page == op.page
             snap == op.snap
             reason == IF KeepsDisabled(cur) THEN cur.reason
                       ELSE ReasonOf(page.member, Exhausted(page))
             full == IF page.monthly = "unknown" THEN cur.monthly = "full"
                     ELSE page.monthly = "full"
             mark == MarkOf(reason, full)
             key == IF snap.key # None THEN snap.key
                    ELSE IF page.fetched THEN snap.cookie ELSE None
             abandoned == IF cur.why = "manual" THEN acct.abandoned ELSE mark # "none"
             why == IF cur.why = "manual" THEN acct.why ELSE mark
             status == IF reason = "none" THEN "active" ELSE "disabled"
             member == IF page.member = "unknown" THEN cur.member ELSE page.member
  <1>1. /\ Sound(acct) /\ Sound(snap) /\ snap.cookie = acct.cookie
        /\ cur \in Rows /\ Coherent(cur) /\ page \in Pages
    BY InvAsParts DEF RefreshSaves
  <1>2. /\ reason \in {"none", "manual", "risk_control", "expired", "quota"}
    BY <1>1 DEF KeepsDisabled, ReasonOf, Rows
  <1>3. mark \in {"none", "risk_control", "monthly_limit"}
    BY DEF MarkOf
  <1>4. key \in {None, acct.cookie}
    BY <1>1
  <1>5. acct' = [acct EXCEPT !.status = status, !.reason = reason, !.key = key,
                             !.abandoned = abandoned, !.why = why, !.member = member,
                             !.monthly = page.monthly, !.short = page.short]
    BY Zenon DEF RefreshSaves
  <1> HIDE DEF reason, mark, key
  <1>6. /\ status \in {"active", "disabled"} /\ (status = "active" <=> reason = "none")
        /\ member \in {"unknown", "yes", "no"}
        /\ abandoned \in BOOLEAN /\ why \in Marks
        /\ abandoned => why # "none"
        /\ why \in {"risk_control", "monthly_limit"} => abandoned
    BY <1>1, <1>3 DEF Rows, Pages, Coherent, Marks
  <1> HIDE DEF abandoned, why, status, member
  <1>7. acct' \in Rows
    BY <1>1, <1>2, <1>4, <1>5, <1>6 DEF Rows, Pages, Statuses, Reasons
  <1>8. /\ acct'.cookie = acct.cookie /\ acct'.key = key /\ acct'.status = status
        /\ acct'.reason = reason /\ acct'.abandoned = abandoned /\ acct'.why = why
    BY <1>1, <1>5 DEF Rows
  <1>9. Coherent(acct')
    BY <1>2, <1>6, <1>8 DEF Coherent, Protected
  <1> QED BY <1>4, <1>7, <1>8, <1>9

LEMMA CheckRestoresSound ==
  ASSUME LifecycleInv, CheckRestores
  PROVE  Sound(acct')
  <1> DEFINE snap == op.snap
             full == snap.monthly = "full"
             reason == ReasonOf(snap.member, snap.short \/ full)
  <1>1. Sound(acct)
    BY InvAsParts
  <1>2. reason \in {"none", "expired", "quota"}
    BY DEF ReasonOf
  <1>3. acct' = [acct EXCEPT
              !.status = IF reason = "none" THEN "active" ELSE "disabled",
              !.reason = reason,
              !.abandoned = IF snap.why = "manual" THEN @ ELSE full,
              !.why = IF snap.why = "manual" THEN @
                      ELSE IF full THEN "monthly_limit" ELSE "none"]
    BY DEF CheckRestores
  <1> HIDE DEF reason, full
  <1>4. full \in BOOLEAN
    BY DEF full
  <1>5. acct' \in Rows
    BY <1>1, <1>2, <1>3, <1>4 DEF Rows, Statuses, Reasons, Marks
  <1>6. /\ acct'.cookie = acct.cookie
        /\ acct'.key = acct.key
        /\ acct'.status = IF reason = "none" THEN "active" ELSE "disabled"
        /\ acct'.reason = reason
        /\ acct'.abandoned = IF snap.why = "manual" THEN acct.abandoned ELSE full
        /\ acct'.why = IF snap.why = "manual" THEN acct.why
                      ELSE IF full THEN "monthly_limit" ELSE "none"
    BY <1>1, <1>3 DEF Rows
  <1>7. Coherent(acct')
    BY <1>1, <1>2, <1>4, <1>6 DEF Coherent, Protected
  <1> QED BY <1>1, <1>5, <1>6, <1>7

LEMMA RefreshRecordsErrorSound ==
  ASSUME LifecycleInv, RefreshRecordsError
  PROVE  Sound(acct')
  <1> DEFINE cur == op.cur
             preserve == cur.status = "disabled" /\ Protected(cur.reason)
             status == IF preserve \/ op.expired THEN "disabled" ELSE "error"
             reason == IF preserve \/ ~op.expired THEN cur.reason ELSE "auth_expired"
  <1>1. Sound(acct) /\ cur \in Rows /\ Coherent(cur) /\ op.expired \in BOOLEAN
    BY InvAsParts DEF RefreshRecordsError
  <1>2. acct' = [acct EXCEPT !.status = status, !.reason = reason]
    BY Zenon DEF RefreshRecordsError
  <1>3. /\ status \in {"disabled", "error"} /\ reason \in Reasons
        /\ Protected(reason) => status = "disabled"
    BY <1>1 DEF Coherent, Protected, Rows, Reasons
  <1> HIDE DEF status, reason
  <1> QED
    BY <1>1, <1>2, <1>3 DEF Coherent, Rows, Statuses

LEMMA InvalidateSavesSound ==
  ASSUME LifecycleInv, InvalidateSaves
  PROVE  Sound(acct')
  <1>1. Sound(acct)
    BY InvAsParts
  <1> QED
    BY <1>1 DEF InvalidateSaves, Coherent, Protected, Rows, Statuses, Reasons, Marks

LEMMA BackfillSound ==
  ASSUME LifecycleInv, Backfill
  PROVE  Sound(acct') /\ acct'.cookie = acct.cookie
  <1>1. Sound(acct)
    BY InvAsParts
  <1> QED
    BY <1>1 DEF Backfill, MarkOf, Coherent, Protected, Rows, Statuses, Reasons, Marks

\* A write of somebody who does not hold the lock leaves what the operation
\* has read as it is, and the credential.
LEMMA WriteWithoutLock ==
  ASSUME LifecycleInv, Sound(acct'), acct'.cookie = acct.cookie, UNCHANGED op,
         calls' \in [Requests -> {"none", "sent", "rejected"}]
  PROVE  LifecycleInv'
  BY InvAsParts DEF LifecycleInv, TypeOK, RowIsCoherent, KeyOfCookie

LEMMA NextLifecycleInv == LifecycleInv /\ [Next]_vars => LifecycleInv'
  <1> SUFFICES ASSUME LifecycleInv, [Next]_vars PROVE LifecycleInv'
    OBVIOUS
  <1>0. Sound(acct)
    BY InvAsParts
  <1>1. CASE RefreshStarts
    BY <1>0, <1>1, InvAsParts
       DEF RefreshStarts, LifecycleInv, TypeOK, RowIsCoherent, KeyOfCookie, OpKinds
  <1>2. CASE RefreshFetches
    BY <1>0, <1>2, InvAsParts
       DEF RefreshFetches, LifecycleInv, TypeOK, RowIsCoherent, KeyOfCookie, OpKinds
  <1>3. CASE RefreshFails
    BY <1>0, <1>3, InvAsParts
       DEF RefreshFails, LifecycleInv, TypeOK, RowIsCoherent, KeyOfCookie, OpKinds
  <1>4. CASE RefreshSaves
    BY <1>4, RefreshSavesSound, WriteThenUnlock DEF RefreshSaves
  <1>5. CASE RefreshRecordsError
    BY <1>5, RefreshRecordsErrorSound, WriteThenUnlock DEF RefreshRecordsError
  <1>6. CASE CheckStarts
    BY <1>0, <1>6, InvAsParts
       DEF CheckStarts, LifecycleInv, TypeOK, RowIsCoherent, KeyOfCookie, OpKinds
  <1>7. CASE CheckBlocked
    BY <1>0, <1>7, CondemnedIsSound, WriteThenUnlock DEF CheckBlocked
  <1>8. CASE CheckRejected
    BY <1>0, <1>8, InvAsParts
       DEF CheckRejected, LifecycleInv, TypeOK, RowIsCoherent, KeyOfCookie, OpKinds
  <1>9. CASE CheckRestores
    BY <1>9, CheckRestoresSound, WriteThenUnlock DEF CheckRestores
  <1>10. CASE SettingsStart
    BY <1>0, <1>10, InvAsParts
       DEF SettingsStart, LifecycleInv, TypeOK, RowIsCoherent, KeyOfCookie, OpKinds
  <1>11. CASE SettingsSave
    <2>1. Sound(op.snap) /\ op.body \in Bodies
      BY <1>11, InvAsParts DEF SettingsSave
    <2>2. Sound(acct')
      BY <1>0, <1>11, <2>1, SettingsAreSound DEF SettingsSave
    <2> QED BY <1>11, <2>2, WriteThenUnlock DEF SettingsSave
  <1>12. CASE InvalidateSaves
    BY <1>12, InvalidateSavesSound, WriteThenUnlock DEF InvalidateSaves
  <1>13. ASSUME NEW r \in Requests, Send(r) \/ Answer(r) \/ Forbidden(r)
         PROVE  LifecycleInv'
    <2>1. calls' \in [Requests -> {"none", "sent", "rejected"}]
      BY <1>13, InvAsParts DEF Send, Answer, Forbidden
    <2> QED BY <1>0, <1>13, <2>1, WriteWithoutLock DEF Send, Answer, Forbidden
  <1>14. ASSUME NEW r \in Requests, Unauthorized(r) PROVE LifecycleInv'
    <2>1. calls' \in [Requests -> {"none", "sent", "rejected"}]
      BY <1>14, InvAsParts DEF Unauthorized
    <2> QED BY <1>0, <1>14, <2>1, CondemnedIsSound, WriteWithoutLock DEF Unauthorized
  <1>15. ASSUME NEW r \in Requests, InvalidateStarts(r) PROVE LifecycleInv'
    BY <1>0, <1>15, InvAsParts
       DEF InvalidateStarts, LifecycleInv, TypeOK, RowIsCoherent, KeyOfCookie, OpKinds
  <1>16. CASE Backfill
    <2>1. calls' \in [Requests -> {"none", "sent", "rejected"}]
      BY <1>16, InvAsParts DEF Backfill
    <2> QED BY <1>16, <2>1, BackfillSound, WriteWithoutLock DEF Backfill
  <1>17. CASE OperationDies
    BY <1>0, <1>17, WriteThenUnlock DEF OperationDies
  <1>18. CASE UNCHANGED vars
    BY <1>18, InvAsParts DEF vars, LifecycleInv, TypeOK, RowIsCoherent, KeyOfCookie
  <1> QED
    BY <1>1, <1>2, <1>3, <1>4, <1>5, <1>6, <1>7, <1>8, <1>9, <1>10, <1>11, <1>12,
       <1>13, <1>14, <1>15, <1>16, <1>17, <1>18
       DEF Next

-----------------------------------------------------------------------------

\* The inductive invariant holds in every reachable state.
THEOREM LifecycleInvariant == Spec => []LifecycleInv
  BY InitLifecycleInv, NextLifecycleInv, PTL DEF Spec

\* However operations overlap, the row stays coherent.
THEOREM LifecycleCoherence == Spec => []RowIsCoherent
  <1>1. LifecycleInv => RowIsCoherent
    BY DEF LifecycleInv
  <1> QED BY <1>1, LifecycleInvariant, PTL

\* A replaced credential leaves no key behind: a refresh that was under way
\* cannot write it back.
THEOREM NoKeyOfOldCookie == Spec => []KeyOfCookie
  <1>1. LifecycleInv => KeyOfCookie
    BY DEF LifecycleInv
  <1> QED BY <1>1, LifecycleInvariant, PTL

-----------------------------------------------------------------------------
(* What the admin decided, and what a 401 established.                      *)

LEMMA InitDecisions == Init => DecisionsAreRead
  BY DEF Init, DecisionsAreRead, Idle

\* A write under the lock gives the lock back.
LEMMA UnlockedDecisions ==
  ASSUME Unlock
  PROVE  DecisionsAreRead'
  BY DEF Unlock, Idle, DecisionsAreRead

\* A write without the lock makes no decision of the admin, and condemns.
LEMMA UndecidedWrite ==
  ASSUME DecisionsAreRead, op' = op,
         acct'.reason # acct.reason => acct'.reason = "risk_control",
         acct'.why # acct.why => acct'.why # "manual"
  PROVE  DecisionsAreRead'
  BY DEF DecisionsAreRead

LEMMA NextDecisions ==
  LifecycleInv /\ DecisionsAreRead /\ [Next]_vars => DecisionsAreRead'
  <1> SUFFICES ASSUME LifecycleInv, DecisionsAreRead, [Next]_vars PROVE DecisionsAreRead'
    OBVIOUS
  <1>0. acct \in Rows
    BY DEF LifecycleInv, TypeOK
  <1>1. CASE RefreshStarts
    BY <1>1 DEF RefreshStarts, DecisionsAreRead
  <1>2. CASE RefreshFetches
    BY <1>2 DEF RefreshFetches, DecisionsAreRead
  <1>3. CASE RefreshFails
    BY <1>3 DEF RefreshFails, DecisionsAreRead
  <1>4. CASE CheckStarts
    BY <1>4 DEF CheckStarts, DecisionsAreRead
  <1>5. CASE CheckRejected
    BY <1>5 DEF CheckRejected, DecisionsAreRead
  <1>6. CASE SettingsStart
    BY <1>6 DEF SettingsStart, DecisionsAreRead
  <1>7. CASE RefreshSaves \/ RefreshRecordsError \/ CheckBlocked \/ CheckRestores
             \/ SettingsSave \/ InvalidateSaves \/ OperationDies
    <2>1. Unlock
      BY <1>7 DEF RefreshSaves, RefreshRecordsError, CheckBlocked, CheckRestores,
                  SettingsSave, InvalidateSaves, OperationDies
    <2> QED BY <2>1, UnlockedDecisions
  <1>8. ASSUME NEW r \in Requests, Send(r) \/ Answer(r) \/ Forbidden(r)
        PROVE  DecisionsAreRead'
    BY <1>8 DEF Send, Answer, Forbidden, DecisionsAreRead
  <1>9. ASSUME NEW r \in Requests, Unauthorized(r) PROVE DecisionsAreRead'
    <2>1. acct'.reason = "risk_control" /\ acct'.why = "risk_control" /\ op' = op
      BY <1>0, <1>9 DEF Unauthorized, Condemned, Rows
    <2> QED BY <2>1, UndecidedWrite
  <1>10. ASSUME NEW r \in Requests, InvalidateStarts(r) PROVE DecisionsAreRead'
    BY <1>10 DEF InvalidateStarts, DecisionsAreRead
  <1>11. CASE Backfill
    <2>1. acct'.reason = acct.reason /\ acct'.why # "manual" /\ op' = op
      BY <1>0, <1>11 DEF Backfill, MarkOf, Rows
    <2> QED BY <2>1, UndecidedWrite
  <1>12. CASE UNCHANGED vars
    BY <1>12 DEF vars, DecisionsAreRead
  <1> QED
    BY <1>1, <1>2, <1>3, <1>4, <1>5, <1>6, <1>7, <1>8, <1>9, <1>10, <1>11, <1>12 DEF Next

LEMMA DecisionsInvariant == Spec => [](LifecycleInv /\ DecisionsAreRead)
  BY InitLifecycleInv, NextLifecycleInv, InitDecisions, NextDecisions, PTL DEF Spec

\* The steps that leave the reason and the marks alone.
LEMMA QuietSteps ==
  ASSUME Next,
         ~(\/ RefreshSaves \/ RefreshRecordsError \/ CheckBlocked \/ CheckRestores
           \/ SettingsSave \/ InvalidateSaves \/ Backfill
           \/ \E r \in Requests : Unauthorized(r))
  PROVE  acct' = acct
  BY DEF Next, RefreshStarts, RefreshFetches, RefreshFails, CheckStarts, CheckRejected,
         SettingsStart, Send, Answer, Forbidden, InvalidateStarts, OperationDies

\* A 401 condemns, whoever reports it.
LEMMA CondemnedSteps ==
  ASSUME LifecycleInv, CheckBlocked \/ \E r \in Requests : Unauthorized(r)
  PROVE  acct'.reason = "risk_control"
  <1>1. acct \in Rows /\ acct' = Condemned(acct)
    BY DEF LifecycleInv, TypeOK, CheckBlocked, Unauthorized
  <1> QED BY <1>1 DEF Condemned, Rows

LEMMA StepKeepsDecisions ==
  ASSUME LifecycleInv, DecisionsAreRead, Next,
         op.kind # "settings", acct'.reason # "risk_control"
  PROVE  /\ acct.reason = "manual" => acct'.reason = "manual"
         /\ acct.why = "manual" => acct'.why = "manual" /\ acct'.abandoned = acct.abandoned
  <1> DEFINE Kept == /\ acct.reason = "manual" => acct'.reason = "manual"
                     /\ acct.why = "manual" =>
                           acct'.why = "manual" /\ acct'.abandoned = acct.abandoned
  <1>0. acct \in Rows
    BY DEF LifecycleInv, TypeOK
  <1>1. CASE RefreshSaves
    <2>1. /\ acct.reason = "manual" => op.cur.reason = "manual"
          /\ acct.why = "manual" => op.cur.why = "manual"
      BY <1>1 DEF RefreshSaves, DecisionsAreRead
    <2>2. Coherent(op.cur)
      BY <1>1 DEF RefreshSaves, LifecycleInv
    <2> QED BY <1>0, <1>1, <2>1, <2>2
            DEF RefreshSaves, KeepsDisabled, Coherent, Protected, Rows
  <1>2. CASE RefreshRecordsError
    <2>1. acct.reason = "manual" => op.cur.reason = "manual"
      BY <1>2 DEF RefreshRecordsError, DecisionsAreRead
    <2>2. Coherent(op.cur)
      BY <1>2 DEF RefreshRecordsError, LifecycleInv
    <2> QED BY <1>0, <1>2, <2>1, <2>2 DEF RefreshRecordsError, Coherent, Protected, Rows
  <1>3. CASE CheckRestores
    <2>1. /\ acct.reason # "manual"
          /\ acct.why = "manual" => op.snap.why = "manual"
      BY <1>3 DEF CheckRestores, DecisionsAreRead
    <2> QED BY <1>0, <1>3, <2>1 DEF CheckRestores, Rows
  <1>4. CASE InvalidateSaves
    <2>1. acct.reason = "manual" => op.cur.reason = "manual"
      BY <1>4 DEF InvalidateSaves, DecisionsAreRead
    <2> QED BY <1>0, <1>4, <2>1 DEF InvalidateSaves, Rows
  <1>5. CASE Backfill
    BY <1>0, <1>5 DEF Backfill, Rows
  <1>6. ~SettingsSave
    BY DEF SettingsSave
  <1> QED BY <1>1, <1>2, <1>3, <1>4, <1>5, <1>6, QuietSteps, CondemnedSteps

\* Whatever overlaps, only the admin or an upstream 401 ends a manual disabling.
THEOREM ManualDisabling == Spec => ManualDisableStands
  <1>1. ASSUME LifecycleInv, DecisionsAreRead, [Next]_vars
        PROVE  [acct.reason = "manual" /\ acct'.reason # "manual" =>
                   op.kind = "settings" \/ acct'.reason = "risk_control"]_vars
    BY <1>1, StepKeepsDecisions
  <1> QED BY <1>1, DecisionsInvariant, PTL DEF Spec, ManualDisableStands

\* Whatever overlaps, only the admin or an upstream 401 ends what the admin
\* decided about the abandoned list.
THEOREM ManualMark == Spec => ManualMarkOutlivesRefresh
  <1>1. ASSUME LifecycleInv, DecisionsAreRead, [Next]_vars
        PROVE  [acct.why = "manual" /\ (acct'.abandoned # acct.abandoned \/ acct'.why # "manual") =>
                   op.kind = "settings" \/ acct'.reason = "risk_control"]_vars
    BY <1>1, StepKeepsDecisions
  <1> QED BY <1>1, DecisionsInvariant, PTL DEF Spec, ManualMarkOutlivesRefresh

\* A refresh that read a condemned row leaves it condemned.
LEMMA StepKeepsConviction ==
  ASSUME LifecycleInv, Next, acct.reason = "risk_control", acct'.reason # "risk_control",
         op.kind \notin {"settings", "check", "invalidate"}
  PROVE  op.cur.reason # "risk_control"
  <1>0. acct \in Rows
    BY DEF LifecycleInv, TypeOK
  <1>1. CASE RefreshSaves
    <2>1. Coherent(op.cur)
      BY <1>1 DEF RefreshSaves, LifecycleInv
    <2> QED BY <1>0, <1>1, <2>1 DEF RefreshSaves, KeepsDisabled, Coherent, Protected, Rows
  <1>2. CASE RefreshRecordsError
    <2>1. Coherent(op.cur)
      BY <1>2 DEF RefreshRecordsError, LifecycleInv
    <2> QED BY <1>0, <1>2, <2>1 DEF RefreshRecordsError, Coherent, Protected, Rows
  <1>3. CASE Backfill
    BY <1>0, <1>3 DEF Backfill, Rows
  <1>4. ~SettingsSave /\ ~CheckRestores /\ ~InvalidateSaves
    BY DEF SettingsSave, CheckRestores, InvalidateSaves
  <1> QED BY <1>1, <1>2, <1>3, <1>4, QuietSteps, CondemnedSteps

\* A refresh takes an account back from a 401 only from a row read before it.
THEOREM Conviction == Spec => RefreshKeepsConviction
  <1>1. ASSUME LifecycleInv, [Next]_vars
        PROVE  [acct.reason = "risk_control" /\ acct'.reason # "risk_control" =>
                   \/ op.kind \in {"settings", "check", "invalidate"}
                   \/ op.cur.reason # "risk_control"]_vars
    BY <1>1, StepKeepsConviction
  <1> QED BY <1>1, LifecycleInvariant, PTL DEF Spec, RefreshKeepsConviction

=============================================================================

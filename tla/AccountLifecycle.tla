-------------------------- MODULE AccountLifecycle --------------------------
(***************************************************************************)
(* One row of table accounts, and the operations that write its status,    *)
(* its upstream API key and its abandoned mark (server/utils/accounts.ts,  *)
(* account-risk-control.ts, account-identity.ts).                          *)
(*                                                                         *)
(* Every operation but two runs under the account's lock                   *)
(* (runAccountOperation), reads the row, waits for the network, and writes *)
(* some columns with one UPDATE.  The two that do not take the lock are    *)
(* markAccountRiskControlled when the proxy calls it for an upstream 401,  *)
(* and the backfill that an instance runs when it starts.                  *)
(*                                                                         *)
(* Columns that decide nothing here (usage figures, e-mail, workspace      *)
(* names, timestamps) are left out.  An API key is named by the credential *)
(* it was obtained with.                                                   *)
(***************************************************************************)
EXTENDS FiniteSets

CONSTANTS
    Requests,     \* proxied requests
    Cookies,      \* credentials an operator may give the account
    None          \* NULL

ASSUME LifecycleAssumption == Cookies # {} /\ None \notin Cookies

Statuses == {"pending", "active", "error", "disabled"}
Reasons == {"none", "manual", "auth_expired", "risk_control", "expired", "quota"}
Marks == {"none", "manual", "risk_control", "monthly_limit"}
Readings == {"unknown", "below", "full"}

Rows == [status : Statuses,            \* status
         reason : Reasons,             \* disabled_reason
         key : Cookies \cup {None},    \* upstream_api_key
         cookie : Cookies,             \* auth_cookie
         abandoned : BOOLEAN,          \* is_abandoned
         why : Marks,                  \* abandoned_reason
         member : {"unknown", "yes", "no"},   \* subscription_status
         monthly : Readings,           \* monthly_usage: NULL, < 100, >= 100
         short : BOOLEAN]              \* rolling or weekly usage >= 100

\* What one account page tells: a figure that the page does not show is
\* unknown.  `fetched` says whether the keys page yielded a key.
Pages == [member : {"unknown", "yes", "no"}, monthly : Readings,
          short : BOOLEAN, fetched : BOOLEAN]

\* An admin request: a status, an abandoned mark or a credential, or several.
Bodies == [status : Statuses \cup {None}, abandoned : BOOLEAN \cup {None},
           cookie : Cookies \cup {None}]

VARIABLES
    acct,      \* the row
    op,        \* the operation that holds the account's lock, if any
    calls      \* proxied requests under way with this account

vars == <<acct, op, calls>>

Idle == [kind |-> "none"]

Fresh(c) ==
    [status |-> "pending", reason |-> "none", key |-> None, cookie |-> c,
     abandoned |-> FALSE, why |-> "none", member |-> "unknown",
     monthly |-> "unknown", short |-> FALSE]

Init ==
    /\ \E c \in Cookies : acct = Fresh(c)
    /\ op = Idle
    /\ calls = [r \in Requests |-> "none"]

Protected(reason) == reason \in {"manual", "auth_expired", "risk_control"}

\* The end of an operation releases the lock.
Unlock == op' = Idle

-----------------------------------------------------------------------------
(* refreshAccountOnce                                                      *)

\* It reads the account, whose credential it will use.
RefreshStarts ==
    /\ op = Idle
    /\ op' = [kind |-> "refresh", snap |-> acct]
    /\ UNCHANGED <<acct, calls>>

\* The pages have come; the row is read again before it is written.
RefreshFetches ==
    /\ op.kind = "refresh"
    /\ \E page \in Pages :
          op' = [kind |-> "refresh_save", snap |-> op.snap, cur |-> acct, page |-> page]
    /\ UNCHANGED <<acct, calls>>

\* A page could not be loaded, or showed that the credential has expired.
RefreshFails ==
    /\ op.kind = "refresh"
    /\ \E expired \in BOOLEAN :
          op' = [kind |-> "refresh_error", cur |-> acct, expired |-> expired]
    /\ UNCHANGED <<acct, calls>>

Exhausted(page) == page.short \/ page.monthly = "full"

\* Why an account with these figures is out of use, if it is.
ReasonOf(member, exhausted) ==
    IF member = "no" THEN "expired" ELSE IF exhausted THEN "quota" ELSE "none"

\* Why an account is abandoned automatically, if it is.
MarkOf(reason, monthlyExhausted) ==
    IF reason = "risk_control" THEN "risk_control"
    ELSE IF monthlyExhausted THEN "monthly_limit" ELSE "none"

\* Faulty variants: a refresh respects only one of the two reasons.
KeepsManualOnly(row) == row.status = "disabled" /\ row.reason = "manual"
KeepsRiskOnly(row) == row.status = "disabled" /\ row.reason = "risk_control"

\* A refresh leaves the account disabled, for the reason it is.
KeepsDisabled(row) ==
    row.status = "disabled" /\ row.reason \in {"manual", "risk_control"}

\* Faulty variant: the abandoned mark is always recomputed.
SaveAnyMark ==
    /\ op.kind = "refresh_save"
    /\ acct' = [acct EXCEPT !.abandoned = op.page.monthly = "full",
                            !.why = IF op.page.monthly = "full" THEN "monthly_limit" ELSE "none"]
    /\ Unlock
    /\ UNCHANGED calls

\* Faulty variant: the status is recomputed, the reason of an earlier state
\* stays.
SaveStatusOnly ==
    /\ op.kind = "refresh_save"
    /\ acct' = [acct EXCEPT !.status = IF Exhausted(op.page) THEN "disabled" ELSE "active"]
    /\ Unlock
    /\ UNCHANGED calls

RefreshSaves ==
    LET page == op.page
        cur == op.cur
        reason == IF KeepsDisabled(cur) THEN cur.reason ELSE ReasonOf(page.member, Exhausted(page))
        monthlyExhausted ==
            IF page.monthly = "unknown" THEN cur.monthly = "full" ELSE page.monthly = "full"
        mark == MarkOf(reason, monthlyExhausted)
    IN  /\ op.kind = "refresh_save"
        /\ acct' = [acct EXCEPT
              !.status = IF reason = "none" THEN "active" ELSE "disabled",
              !.reason = reason,
              !.key = IF op.snap.key # None THEN op.snap.key
                      ELSE IF page.fetched THEN op.snap.cookie ELSE None,
              !.abandoned = IF cur.why = "manual" THEN @ ELSE mark # "none",
              !.why = IF cur.why = "manual" THEN @ ELSE mark,
              !.member = IF page.member = "unknown" THEN cur.member ELSE page.member,
              !.monthly = page.monthly,
              !.short = page.short]
        /\ Unlock
        /\ UNCHANGED calls

RefreshRecordsError ==
    LET cur == op.cur
        preserve == cur.status = "disabled" /\ Protected(cur.reason)
    IN  /\ op.kind = "refresh_error"
        /\ acct' = [acct EXCEPT
              !.status = IF preserve \/ op.expired THEN "disabled" ELSE "error",
              !.reason = IF preserve \/ ~op.expired THEN cur.reason ELSE "auth_expired"]
        /\ Unlock
        /\ UNCHANGED calls

-----------------------------------------------------------------------------
(* An upstream refusal: 401 (markAccountRiskControlled) or 403             *)
(* (invalidateUpstreamApiKey).                                             *)

Condemned(row) ==
    [row EXCEPT !.key = None, !.status = "disabled", !.reason = "risk_control",
                !.abandoned = TRUE, !.why = "risk_control"]

InvalidateStarts(r) ==
    /\ calls[r] = "rejected" /\ op = Idle
    /\ op' = [kind |-> "invalidate", cur |-> acct]
    /\ calls' = [calls EXCEPT ![r] = "none"]
    /\ UNCHANGED acct

InvalidateSaves ==
    LET manual == op.cur.reason = "manual"
    IN  /\ op.kind = "invalidate"
        /\ acct' = [acct EXCEPT !.key = None,
                                !.status = IF manual THEN "disabled" ELSE "error",
                                !.reason = IF manual THEN "manual" ELSE "none"]
        /\ Unlock
        /\ UNCHANGED calls

-----------------------------------------------------------------------------
(* checkAccountRiskControl: a test call with the account's key.            *)

CheckStarts ==
    /\ op = Idle
    /\ acct.key # None
    /\ op' = [kind |-> "check", snap |-> acct]
    /\ UNCHANGED <<acct, calls>>

\* 401, or a 403 with the provider's block message.
CheckBlocked ==
    /\ op.kind = "check"
    /\ acct' = Condemned(acct)
    /\ Unlock
    /\ UNCHANGED calls

\* Any other 403: the key is cleared as for a proxied request.
CheckRejected ==
    /\ op.kind = "check"
    /\ op' = [kind |-> "invalidate", cur |-> acct]
    /\ UNCHANGED <<acct, calls>>

\* The test call succeeds: an account that the check found condemned goes
\* back to what its stored figures say.
CheckRestores ==
    LET snap == op.snap
        full == snap.monthly = "full"
        reason == ReasonOf(snap.member, snap.short \/ full)
    IN  /\ op.kind = "check" /\ snap.reason = "risk_control"
        /\ acct' = [acct EXCEPT
              !.status = IF reason = "none" THEN "active" ELSE "disabled",
              !.reason = reason,
              !.abandoned = IF snap.why = "manual" THEN @ ELSE full,
              !.why = IF snap.why = "manual" THEN @
                      ELSE IF full THEN "monthly_limit" ELSE "none"]
        /\ Unlock
        /\ UNCHANGED calls

-----------------------------------------------------------------------------
(* updateAccountSettings: the admin changes the status, the abandoned mark *)
(* or the credential.                                                      *)

\* Taking a condemned account out of the abandoned list is refused.
SettingsStart ==
    /\ op = Idle
    /\ \E body \in Bodies :
          /\ ~(body.abandoned = FALSE /\ acct.reason = "risk_control")
          /\ op' = [kind |-> "settings", snap |-> acct, body |-> body]
    /\ UNCHANGED <<acct, calls>>

\* accountCredentialResetState: what belongs to the previous credential is
\* cleared, what the operator decided is kept.
ResetFor(row, snap, c) ==
    LET disabled == snap.reason = "manual"
        marked == snap.why = "manual"
    IN  [row EXCEPT
            !.cookie = c, !.key = None,
            !.status = IF disabled THEN "disabled" ELSE "pending",
            !.reason = IF disabled THEN "manual" ELSE "none",
            !.abandoned = marked /\ snap.abandoned,
            !.why = IF marked THEN "manual" ELSE "none",
            !.member = "unknown", !.monthly = "unknown", !.short = FALSE]

WithStatus(row, s) ==
    [row EXCEPT !.status = s, !.reason = IF s = "disabled" THEN "manual" ELSE "none"]

\* The columns that a body sets, applied to a row.
Settings(row, snap, body) ==
    LET changed == body.cookie # None /\ body.cookie # snap.cookie
        reset == IF changed THEN ResetFor(row, snap, body.cookie) ELSE row
        set == IF body.status # None THEN WithStatus(reset, body.status) ELSE reset
    IN  IF body.abandoned # None
        THEN [set EXCEPT !.abandoned = body.abandoned, !.why = "manual"]
        ELSE set

\* Faulty variant: the update does not take the account's lock.
SettingsUnlocked ==
    /\ \E body \in Bodies : acct' = Settings(acct, acct, body)
    /\ UNCHANGED <<op, calls>>

SettingsSave ==
    /\ op.kind = "settings"
    /\ acct' = Settings(acct, op.snap, op.body)
    /\ Unlock
    /\ UNCHANGED calls

-----------------------------------------------------------------------------
(* What does not take the lock.                                            *)

\* getProxyCandidates
Eligible(row) ==
    /\ row.status = "active" /\ row.member = "yes"
    /\ row.key # None /\ ~row.abandoned

\* A proxied request is sent with the account's key.
Send(r) ==
    /\ calls[r] = "none"
    /\ Eligible(acct)
    /\ calls' = [calls EXCEPT ![r] = "sent"]
    /\ UNCHANGED <<acct, op>>

\* Its answer says nothing of the account, or its upstream call fails.
Answer(r) ==
    /\ calls[r] = "sent"
    /\ calls' = [calls EXCEPT ![r] = "none"]
    /\ UNCHANGED <<acct, op>>

\* Upstream 401: the account is condemned at once, without its lock.
Unauthorized(r) ==
    /\ calls[r] = "sent"
    /\ acct' = Condemned(acct)
    /\ calls' = [calls EXCEPT ![r] = "none"]
    /\ UNCHANGED op

\* Upstream 403: the key's invalidation waits for the lock.
Forbidden(r) ==
    /\ calls[r] = "sent"
    /\ calls' = [calls EXCEPT ![r] = "rejected"]
    /\ UNCHANGED <<acct, op>>

\* An instance starts and recomputes every mark that is not manual.
Backfill ==
    LET full == acct.monthly = "full"
        mark == MarkOf(acct.reason, full)
    IN  /\ acct.why # "manual"
        /\ acct' = [acct EXCEPT !.abandoned = mark # "none", !.why = mark]
        /\ UNCHANGED <<op, calls>>

\* The operation under way throws, or finds nothing to write, or its instance
\* stops: the lock goes with its database connection.
OperationDies ==
    /\ op # Idle
    /\ Unlock
    /\ UNCHANGED <<acct, calls>>

Next ==
    \/ RefreshStarts \/ RefreshFetches \/ RefreshFails
    \/ RefreshSaves \/ RefreshRecordsError
    \/ CheckStarts \/ CheckBlocked \/ CheckRejected \/ CheckRestores
    \/ SettingsStart \/ SettingsSave
    \/ InvalidateSaves
    \/ \E r \in Requests :
          Send(r) \/ Answer(r) \/ Unauthorized(r) \/ Forbidden(r) \/ InvalidateStarts(r)
    \/ Backfill
    \/ OperationDies

Spec == Init /\ [][Next]_vars

-----------------------------------------------------------------------------
(* Properties *)

OpKinds == {"none", "refresh", "refresh_save", "refresh_error", "check", "settings",
            "invalidate"}

TypeOK ==
    /\ acct \in Rows
    /\ calls \in [Requests -> {"none", "sent", "rejected"}]
    /\ op.kind \in OpKinds
    /\ op.kind \in {"refresh", "refresh_save", "check", "settings"} => op.snap \in Rows
    /\ op.kind \in {"refresh_save", "refresh_error", "invalidate"} => op.cur \in Rows
    /\ op.kind = "refresh_save" => op.page \in Pages
    /\ op.kind = "refresh_error" => op.expired \in BOOLEAN
    /\ op.kind = "settings" => op.body \in Bodies

\* However the writes of refreshes, refusals, checks and admins interleave,
\* and although each sets its columns from a row it read earlier, a row makes
\* sense: a reason that protects an account keeps it disabled, an account in
\* use has no reason to be out of it, and an abandoned account says why.
Coherent(row) ==
    /\ Protected(row.reason) => row.status = "disabled"
    /\ row.status \in {"active", "pending"} => row.reason = "none"
    /\ row.abandoned => row.why # "none"
    /\ row.why \in {"risk_control", "monthly_limit"} => row.abandoned

RowIsCoherent == Coherent(acct)

\* An account never carries the API key of a credential it had before.
KeyOfCookie == acct.key \in {None, acct.cookie}

\* What the inductive proof of the two above needs: the rows that the
\* operation under way has read are coherent, and while it holds the lock
\* nobody else changes the credential.
LifecycleInv ==
    /\ TypeOK
    /\ RowIsCoherent
    /\ KeyOfCookie
    /\ op.kind \in {"refresh", "refresh_save", "check", "settings"} =>
          /\ Coherent(op.snap)
          /\ op.snap.cookie = acct.cookie
          /\ op.snap.key \in {None, op.snap.cookie}
    /\ op.kind \in {"refresh_save", "refresh_error", "invalidate"} => Coherent(op.cur)

\* What the proof of the three below needs: whatever happens to the row
\* without the lock, the row that the operation under way has read shows what
\* the admin had decided, and a condemned account stays condemned.
DecisionsAreRead ==
    /\ op.kind = "check" =>
          /\ acct.reason = "manual" => op.snap.reason = "manual"
          /\ acct.why = "manual" => op.snap.why = "manual"
          /\ op.snap.reason = "risk_control" => acct.reason = "risk_control"
    /\ op.kind \in {"refresh_save", "refresh_error", "invalidate"} =>
          /\ acct.reason = "manual" => op.cur.reason = "manual"
          /\ acct.why = "manual" => op.cur.why = "manual"

\* Only the admin, or an upstream 401, changes a manual disabling.
ManualDisableStands ==
    [][acct.reason = "manual" /\ acct'.reason # "manual" =>
          op.kind = "settings" \/ acct'.reason = "risk_control"]_vars

\* Only the admin, or an upstream 401, changes what the admin decided about
\* the abandoned list: no refresh, check or restart of an instance does.
ManualMarkOutlivesRefresh ==
    [][acct.why = "manual" /\ (acct'.abandoned # acct.abandoned \/ acct'.why # "manual") =>
          op.kind = "settings" \/ acct'.reason = "risk_control"]_vars

\* A refresh takes an account back from a 401 only if it read the row before
\* the 401 was recorded.
RefreshKeepsConviction ==
    [][acct.reason = "risk_control" /\ acct'.reason # "risk_control" =>
          \/ op.kind \in {"settings", "check", "invalidate"}
          \/ op.cur.reason # "risk_control"]_vars

-----------------------------------------------------------------------------
(* What comments of the code say and the code does not keep.               *)

\* accounts.ts:172-174, "the automatic marking logic (refreshAccountOnce /
\* markAccountRiskControlled ...) is guarded by !== 'manual'": an automatic
\* step never changes a manual mark.
ManualMarkStands ==
    [][acct.why = "manual" => acct'.why = "manual"]_vars

\* account-risk-control.ts:69, "Official account API 401 is terminal for this
\* pool": nothing but the admin or a successful check takes an account back.
UnauthorizedIsTerminal ==
    [][acct.reason = "risk_control" /\ acct'.reason # "risk_control" =>
          op.kind \in {"settings", "check"}]_vars

\* accounts.ts:680-681, "if this fetch misses [the monthly usage], the stored
\* value is kept, so that one glitch does not take the account out of the
\* abandoned list": it leaves the list only when a page shows usage below the
\* limit, the admin says so, or it gets another credential.
MonthlyMarkStands ==
    [][acct.why = "monthly_limit" /\ ~acct'.abandoned =>
          op.kind = "settings" \/ acct'.monthly = "below"]_vars
=============================================================================

------------------------------- MODULE SignIn -------------------------------
(***************************************************************************)
(* Who a browser tab believes is signed in.  The identity provider tells   *)
(* the tab of every token it gets; AuthBridge answers each with a handler  *)
(* that opens the server's session once per user, remembers the account it *)
(* was told of and puts it into the store, and the pages send the customer *)
(* on by what the store says.                                              *)
(*   frontend features/auth/AuthBridge.tsx, authSlice.ts, RequireAuth.tsx  *)
(*   app/(auth)/login, signup; app/account/settings; AccountShell.tsx      *)
(*   backend modules/auth/auth.service.ts  syncSession, revokeSession      *)
(* A handler gives way at every await, so handlers of two events mix; the  *)
(* notice of a sign-out is dealt with at once.  Sessions of devices and    *)
(* the life of the account on the server are AccountLifecycle.             *)
(***************************************************************************)
EXTENDS Naturals, FiniteSets

CONSTANTS
  Users, NoUser,
  Handlers,      \* token events that can be in work at once
  Admins,        \* users with the role ADMIN
  MaxNames,      \* names a customer can give: 1..MaxNames, 0 is none
  MaxTold,       \* bound: events the application does not cause itself
  MaxFaults,     \* bound: failed requests
  SlowHandlers,  \* whether a sign-out can overtake a running handler
  Changing       \* what the pages are used for

ConstantsAssumption ==
  /\ NoUser \notin Users /\ Admins \subseteq Users
  /\ {MaxNames, MaxTold, MaxFaults} \subseteq Nat
  /\ SlowHandlers \in BOOLEAN
  /\ Changing \subseteq {"signup", "name", "restore", "delete", "logout"}

Names == 0..MaxNames
Roles == {"NONE", "CUSTOMER", "ADMIN"}
Places == {"home", "login", "account", "settings", "admin"}

VARIABLES
  fb,        \* the provider's current user in this tab
  token,     \* its newest token, by user: [role, name]
  valid,     \* users whose tokens were not revoked
  claim,     \* provider: custom role claim by user
  display,   \* provider: display name by user
  name,      \* database: users.name
  state,     \* database: users.accountStatus
  handler,   \* the onIdTokenChanged callbacks in work
  ref,       \* syncedRef: [user, account]
  store,     \* the auth slice: [status, user, account]
  job,       \* what the sign-up or settings page is doing
  place, next,            \* the page, and where a login leads
  told, faults,
  syncs, drops            \* history: sessions asked for, refs forgotten

vars == <<fb, token, valid, claim, display, name, state, handler, ref, store,
          job, place, next, told, faults, syncs, drops>>
server == <<claim, display, name, state>>
pages == <<place, next>>

NoAccount == [role |-> "NONE", name |-> 0, state |-> "NONE"]
Idle == [at |-> "idle", user |-> NoUser, first |-> FALSE, account |-> NoAccount,
         token |-> [role |-> "NONE", name |-> 0]]
NoRef == [user |-> NoUser, account |-> NoAccount]
SignedOut == [status |-> "unauthenticated", user |-> NoUser, account |-> NoAccount]
NoJob == [at |-> "none", user |-> NoUser, account |-> NoAccount, name |-> 0]
Role(u) == IF u \in Admins THEN "ADMIN" ELSE "CUSTOMER"

Init ==
  /\ fb = NoUser /\ valid = {} /\ display = [u \in Users |-> 0]
  /\ token = [u \in Users |-> Idle.token]
  /\ claim \in [Users -> {"NONE", "CUSTOMER"}]
  /\ \A u \in Users : claim[u] \in {"NONE", Role(u)}
  /\ name = [u \in Users |-> 0]
  /\ state = [u \in Users |-> "ACTIVE"]
  /\ handler = [h \in Handlers |-> Idle] /\ ref = NoRef
  /\ store = SignedOut /\ job = NoJob
  /\ place = "login" /\ next = "account"
  /\ told = 0 /\ faults = 0 /\ syncs = 0 /\ drops = 0

Running == {h \in Handlers : handler[h] # Idle}
Alone(here) == SlowHandlers \/ Running \subseteq here
Fault == faults < MaxFaults /\ faults' = faults + 1
Authenticated(u, account) ==
  [status |-> "authenticated", user |-> u, account |-> account]

\* The provider's event: a callback starts for the current user.
Event(slots, u) ==
  IF u # fb' THEN handler' = slots
  ELSE LET free == {h \in Handlers : slots[h] = Idle} IN
       /\ free # {}
       /\ handler' = [slots EXCEPT ![CHOOSE h \in free : TRUE] =
                        [Idle EXCEPT !.at = "token", !.user = u]]

Mint(u) == token' = [token EXCEPT ![u] = [role |-> claim[u], name |-> display'[u]]]

\* signOut: without a user the callback is done at once.
Forgotten == NoRef
SignOut ==
  /\ fb' = NoUser /\ ref' = Forgotten /\ store' = SignedOut
  /\ drops' = drops + 1

----------------------------------------------------------------------------
(* The customer and the provider. *)

Enter(u) ==
  /\ place = "login" /\ store.status # "authenticated" /\ fb # u
  /\ job = NoJob /\ told < MaxTold /\ Alone({})
  /\ told' = told + 1 /\ fb' = u /\ valid' = valid \union {u}

\* Login; a new account is an account without name and claim.
SignIn(u) ==
  /\ Enter(u)
  /\ UNCHANGED display /\ Mint(u)
  /\ Event(handler, u)
  /\ UNCHANGED <<claim, name, state, ref, store, job, pages, faults, syncs,
                 drops>>

\* createUserWithEmailAndPassword; the display name follows.
SignUp(u, n) ==
  /\ "signup" \in Changing /\ claim[u] = "NONE" /\ display[u] = 0
  /\ Enter(u)
  /\ UNCHANGED display /\ Mint(u)
  /\ Event(handler, u)
  /\ job' = IF n = 0 THEN NoJob ELSE [NoJob EXCEPT !.at = "naming", !.user = u,
                                                   !.name = n]
  /\ UNCHANGED <<claim, name, state, ref, store, pages, faults, syncs, drops>>

\* The provider's library refreshes: every hour, or for a request answered 401.
Refresh ==
  /\ fb \in valid /\ told < MaxTold
  /\ told' = told + 1
  /\ UNCHANGED <<fb, display>> /\ Mint(fb)
  /\ Event(handler, fb)
  /\ UNCHANGED <<valid, claim, name, state, ref, store, job, pages, faults,
                 syncs, drops>>

\* A refresh with revoked tokens makes the library sign the user out.
Expelled ==
  /\ fb \in Users \ valid /\ job = NoJob /\ Alone({})
  /\ SignOut
  /\ UNCHANGED <<token, valid, server, handler, job, pages, told, faults, syncs>>

Visit(p) ==
  /\ p # place /\ place # "login" /\ job = NoJob
  /\ place' = p /\ next' = "account"
  /\ UNCHANGED <<fb, token, valid, server, handler, ref, store, job, told,
                 faults, syncs, drops>>

----------------------------------------------------------------------------
(* AuthBridge: one callback. *)

Known(u) == ref.user = u

Begin(h) ==
  /\ handler[h].at = "token"
  /\ LET known == Known(handler[h].user) IN
     handler' = [handler EXCEPT
       ![h].at = IF known THEN "result" ELSE "sync",
       ![h].first = ~known,
       ![h].account = IF known THEN ref.account ELSE NoAccount,
       ![h].token = token[handler[h].user]]
  /\ UNCHANGED <<fb, token, valid, server, ref, store, job, pages, told,
                 faults, syncs, drops>>

\* syncSession: the user's row and claim follow the token and the database.
Synced(u, t) ==
  /\ name' = IF t.name = 0 THEN name ELSE [name EXCEPT ![u] = t.name]
  /\ claim' = [claim EXCEPT ![u] = Role(u)]

Sync(h) ==
  /\ handler[h].at = "sync" /\ handler[h].user \in valid
  /\ LET u == handler[h].user IN
     /\ Synced(u, handler[h].token)
     /\ handler' = [handler EXCEPT ![h].at = "synced",
                      ![h].account = [role |-> Role(u), name |-> name'[u],
                                      state |-> state[u]]]
  /\ syncs' = syncs + 1
  /\ UNCHANGED <<fb, token, valid, display, state, ref, store, job, pages,
                 told, faults, drops>>

\* A pending account has no cart to merge.
AfterSync(at) == IF at.account.state = "PENDING" THEN "result" ELSE "merge"

Remembered(h) ==
  /\ ref' = [user |-> handler[h].user, account |-> handler[h].account]
  /\ drops' = IF ref.user \in {NoUser, handler[h].user} THEN drops ELSE drops + 1

Remember(h) ==
  /\ handler[h].at = "synced"
  /\ Remembered(h)
  /\ handler' = [handler EXCEPT ![h].at =
       IF token[handler[h].user].role # handler[h].account.role
       THEN "refresh" ELSE AfterSync(handler[h])]
  /\ UNCHANGED <<fb, token, valid, server, store, job, pages, told, faults,
                 syncs>>

\* getIdToken(true), whose event comes back to AuthBridge.
OwnRefresh(h) ==
  /\ handler[h].at = "refresh" /\ handler[h].user \in valid
  /\ UNCHANGED <<fb, display>> /\ Mint(handler[h].user)
  /\ Event([handler EXCEPT ![h].at = AfterSync(handler[h])], handler[h].user)
  /\ UNCHANGED <<valid, claim, name, state, ref, store, job, pages, told,
                 faults, syncs, drops>>

\* The catch: whoever is signed in is signed out.
FailOut == SignOut

Fail(h) ==
  /\ handler[h].at \in {"sync", "refresh"}
  /\ \/ handler[h].user \notin valid /\ UNCHANGED faults
     \/ Fault
  /\ Alone({h})
  /\ FailOut
  /\ syncs' = IF handler[h].at = "sync" THEN syncs + 1 ELSE syncs
  /\ handler' = [handler EXCEPT ![h] = Idle]
  /\ UNCHANGED <<token, valid, server, job, pages, told>>

\* The merge of the guest cart, whose failure is only logged.
AfterFailedMerge(h) == [handler[h] EXCEPT !.at = "result"]

Merge(h) ==
  /\ handler[h].at = "merge"
  /\ \/ handler' = [handler EXCEPT ![h].at = "result"] /\ UNCHANGED faults
     \/ handler' = [handler EXCEPT ![h] = AfterFailedMerge(h)] /\ Fault
  /\ UNCHANGED <<fb, token, valid, server, ref, store, job, pages, told, syncs,
                 drops>>

\* The name shown is the server's, else the provider's.
ShownName(account, u) == IF account.name # 0 THEN account.name ELSE display[u]

Finish(h) ==
  /\ handler[h].at = "result"
  /\ LET u == handler[h].user IN
     store' = Authenticated(u, [handler[h].account EXCEPT
                                  !.name = ShownName(handler[h].account, u)])
  /\ handler' = [handler EXCEPT ![h] = Idle]
  /\ UNCHANGED <<fb, token, valid, server, ref, job, pages, told, faults,
                 syncs, drops>>

Bridge(h) ==
  \/ Begin(h) \/ Sync(h) \/ Remember(h) \/ OwnRefresh(h) \/ Fail(h)
  \/ Merge(h) \/ Finish(h)

----------------------------------------------------------------------------
(* The pages that change the account. *)

\* updateProfile of the sign-up and the settings page; new tokens, an event.
UpdateProfile ==
  /\ job.at = "naming" \/ job.at = "profile"
  /\ fb = job.user
  /\ UNCHANGED fb
  /\ display' = [display EXCEPT ![job.user] = job.name] /\ Mint(job.user)
  /\ Event(handler, job.user)
  /\ job' = IF job.at = "naming" THEN NoJob ELSE [job EXCEPT !.at = "reload"]
  /\ UNCHANGED <<valid, claim, name, state, ref, store, pages, told, faults,
                 syncs, drops>>

\* The tab was signed out meanwhile, or the request or its answer is lost.
GiveUp ==
  /\ job.at \notin {"none", "logout", "out"}
  /\ \/ fb # job.user /\ UNCHANGED faults
     \/ Fault
  /\ job' = NoJob
  /\ UNCHANGED <<fb, token, valid, server, handler, ref, store, pages, told,
                 syncs, drops>>

StartJob(kind, n) ==
  /\ job = NoJob /\ store.status = "authenticated" /\ fb = store.user
  /\ job' = [at |-> kind, user |-> store.user, account |-> store.account,
             name |-> n]
  /\ UNCHANGED <<fb, token, valid, server, handler, ref, store, pages, told,
                 faults, syncs, drops>>

\* saveProfile, restorePendingAccount and submitDeletion of the settings page,
\* and handleLogout, which every page has.
Start ==
  \/ /\ place = "settings" /\ store.account.state = "ACTIVE"
     /\ \/ "name" \in Changing
           /\ \E n \in Names \ {store.account.name} : StartJob("profile", n)
        \/ "delete" \in Changing /\ StartJob("prove", 0)
  \/ /\ place = "settings" /\ store.account.state = "PENDING"
     /\ "restore" \in Changing /\ StartJob("restore", 0)
  \/ "logout" \in Changing /\ StartJob("logout", 0)

\* getIdToken(true) of saveProfile, or of the proof of the password.
JobRefresh ==
  /\ job.at \in {"reload", "prove"} /\ fb = job.user /\ fb \in valid
  /\ UNCHANGED <<fb, display>> /\ Mint(job.user)
  /\ Event(handler, job.user)
  /\ job' = [job EXCEPT !.at = IF job.at = "reload" THEN "session" ELSE "delete"]
  /\ UNCHANGED <<valid, claim, name, state, ref, store, pages, told, faults,
                 syncs, drops>>

\* The settings page's own POST /auth/session.
SaveSession ==
  /\ job.at = "session" /\ job.user \in valid
  /\ Synced(job.user, token[job.user])
  /\ job' = [job EXCEPT !.at = "show", !.account.name = job.name]
  /\ UNCHANGED <<fb, token, valid, display, state, handler, ref, store, pages,
                 told, faults, syncs, drops>>

RestoreAccount ==
  /\ job.at = "restore"
  /\ state' = [state EXCEPT ![job.user] = "ACTIVE"]
  /\ job' = [job EXCEPT !.at = "show", !.account.state = "ACTIVE"]
  /\ UNCHANGED <<fb, token, valid, claim, display, name, handler, ref, store,
                 pages, told, faults, syncs, drops>>

\* setAuthenticated of the settings page, from the user it was rendered with.
Show ==
  /\ job.at = "show"
  /\ store' = Authenticated(job.user, job.account)
  /\ job' = NoJob
  /\ UNCHANGED <<fb, token, valid, server, handler, ref, pages, told, faults,
                 syncs, drops>>

\* DELETE /auth/account and POST /auth/logout revoke the user's tokens.
Revoke ==
  /\ job.at \in {"delete", "logout"} /\ fb = job.user /\ Alone({})
  /\ valid' = valid \ {job.user}
  /\ state' = IF job.at = "delete" THEN [state EXCEPT ![job.user] = "PENDING"]
              ELSE state
  /\ job' = [job EXCEPT !.at = IF job.at = "delete" THEN "gone" ELSE "out"]
  /\ UNCHANGED <<fb, token, claim, display, name, handler, ref, store, pages,
                 told, faults, syncs, drops>>

\* A logout the server did not hear of goes on all the same.
LogoutAnyway ==
  /\ job.at = "logout"
  /\ \/ fb # job.user /\ UNCHANGED faults
     \/ Fault
  /\ job' = [job EXCEPT !.at = "out"]
  /\ UNCHANGED <<fb, token, valid, server, handler, ref, store, pages, told,
                 syncs, drops>>

Leave ==
  /\ job.at \in {"gone", "out"} /\ Alone({})
  /\ SignOut
  /\ place' = IF job.at = "gone" THEN "login" ELSE "home"
  /\ next' = "account"
  /\ job' = NoJob
  /\ UNCHANGED <<token, valid, server, handler, told, faults, syncs>>

Working ==
  UpdateProfile \/ JobRefresh \/ SaveSession \/ RestoreAccount \/ Show
    \/ Revoke \/ LogoutAnyway \/ Leave \/ GiveUp

----------------------------------------------------------------------------
(* Where the pages send the customer. *)

Protected == {"account", "settings", "admin"}

\* RequireAuth: the page a protected page is exchanged for.
NoRight == "account"
Target ==
  IF store.status = "unauthenticated" THEN "login"
  ELSE IF place = "admin" /\ store.account.role # "ADMIN" THEN NoRight
  ELSE IF store.account.state = "PENDING" THEN "settings"
  ELSE place

Redirect ==
  /\ place \in Protected /\ Target # place
  /\ place' = Target
  /\ next' = IF Target = "login" THEN place ELSE next
  /\ UNCHANGED <<fb, token, valid, server, handler, ref, store, job, told,
                 faults, syncs, drops>>

\* The login and sign-up pages' effect.
Arrive ==
  /\ place = "login" /\ store.status = "authenticated"
  /\ place' = next
  /\ UNCHANGED <<fb, token, valid, server, next, handler, ref, store, job, told,
                 faults, syncs, drops>>

Next ==
  \/ \E u \in Users : SignIn(u) \/ \E n \in Names : SignUp(u, n)
  \/ Refresh \/ Expelled \/ \E p \in Places \ {"login"} : Visit(p)
  \/ \E h \in Handlers : Bridge(h)
  \/ Start \/ Working
  \/ Redirect \/ Arrive

Spec == Init /\ [][Next]_vars

----------------------------------------------------------------------------
(* Properties. *)

Accounts == [role : Roles, name : Names, state : {"NONE", "ACTIVE", "PENDING"}]

TypeOK ==
  /\ fb \in Users \union {NoUser} /\ valid \subseteq Users
  /\ fb # NoUser => claim[fb] = "NONE" \/ claim[fb] = Role(fb)
  /\ \A h \in Handlers :
       /\ handler[h].at \in {"idle", "token", "sync", "synced", "refresh",
                             "merge", "result"}
       /\ handler[h].account \in Accounts
       /\ handler[h].at \in {"merge", "result", "refresh"} =>
            handler[h].account.state # "NONE"
  /\ ref.account \in Accounts /\ store.account \in Accounts
  /\ store.status = "authenticated" <=> store.user # NoUser
  /\ place \in Places /\ next \in Protected

AtRest == Running = {} /\ job = NoJob

\* Without work under way the store names the user the provider has signed in,
\* and nobody when there is none (setAuthenticated, setUnauthenticated against
\* auth.currentUser).  AccountShell.tsx:51 "Continue with Firebase sign-out
\* even if the server session is already gone" relies on it.
StatusAtRest == AtRest => store.user = fb

\* "without this guard the callback can create a session-sync/rate-limit loop"
\* (AuthBridge.tsx:55): a session is asked for at most once per event that
\* came from outside, and once more for each account that was forgotten; the
\* events of AuthBridge's own refreshes ask for none.
OwnRefreshNoSync ==
  syncs <= told + drops + Cardinality({u \in Users : display[u] # 0})

\* The name in the store is the one the customer gave last, though the
\* session may have been opened before the name was known.
NameShown == AtRest /\ store.user # NoUser => store.account.name = display[store.user]

\* The store knows whether the account is to be deleted: a deleted account
\* that is entered again shows the page that restores it, and a restored
\* account shows its other pages.  (Revoked tokens wait for Expelled.)
StateShown ==
  AtRest /\ store.user \in valid => store.account.state = state[store.user]

\* The provider has signed a user in; the store knows it, or the user is out.
HasSignedIn(u) == fb = u
KnownOrOut(u) == fb = u => store.user = u

=============================================================================

------------------------------- MODULE WebAuth -------------------------------
(***************************************************************************)
(* Authentication of packages/auth in the browser: init(), signIn() with   *)
(* its page redirect, login iframe or sign-in button, hostedSignIn(),      *)
(* signinWithJwt() and signOut(), each cut at its awaits.  The popup is    *)
(* PopupAuth's: here it signs in or fails in one step.                     *)
(***************************************************************************)
EXTENDS FetchRequest

CONSTANTS
  Acts,      (* calls of those methods; callers and requesters as well  *)
  Import,    (* the caller of getCredentials() in the constructor       *)
  Appsail    (* the projects that run on AppSail                        *)

VARIABLES
  auth,      (* the project of the instance's fields zaid and projectId  *)
  act,       (* each call: what it is, how far, and its promise         *)
  frame,     (* the login iframe and the project its URL names          *)
  button,    (* #zc-signin-button                                       *)
  page,      (* where the page goes and the project that names          *)
  embedded   (* the application runs inside an iframe                   *)

webVars == <<auth, act, frame, button, page, embedded>>

Place == [to : {"here", "frame", "password", "signin", "hosted", "app", "logout"},
          project : Projects \cup {Nobody}]

Here == [to |-> "here", project |-> Nobody]

WebTypeOK ==
  /\ auth \in Projects \cup {Nobody}
  /\ act \in [Acts -> [pc : {"idle", "init", "restore", "restored", "signIn", "user", "signup", "signupLast",
                             "assert", "button", "popup", "outUser", "outAsk", "revoke", "clear", "revokeLast",
                             "clearLast", "asked", "done"},
                       promise : {"none", "pending", "resolved", "rejected"}]]
  /\ frame \in Place /\ page \in Place
  /\ button \in {"none", "enabled", "disabled"}
  /\ embedded \in BOOLEAN

WebInit ==
  /\ auth = Nobody
  /\ act = [a \in Acts |-> [pc |-> "idle", promise |-> "none"]]
  /\ frame = Here /\ page = Here
  /\ button = "none"
  /\ embedded \in BOOLEAN

-----------------------------------------------------------------------------
At(a, pc) == act[a].pc = pc

Go(a, pc) == act' = [act EXCEPT ![a] = [pc |-> pc, promise |-> IF @.promise = "none" THEN "pending" ELSE @.promise]]

(* A promise settles once. *)
End(a, pc, how) ==
  act' = [act EXCEPT ![a] = [pc |-> pc, promise |-> IF @.promise \in {"resolved", "rejected"} THEN @.promise ELSE how]]

NoRequest == UNCHANGED <<request, userJwt>>

StoreOnly == UNCHANGED <<idb, flight, fetches, caller, context, version, cookie, marker, now>>

(* The options of the requests of this class. *)
User == {o \in Options : o.auth /\ ~o.external}

Elsewhere == {o \in Options : o.auth /\ o.external}

Leave(a, to) ==
  /\ page' = [to |-> to, project |-> auth]
  /\ End(a, "done", "resolved")

Resync == auth' = store.project

(* #setAuthProtocol(); the instance's own copy is never read. *)
SetAuthProtocol(p) == store' = [store EXCEPT !.protocol = p] /\ UNCHANGED auth

-----------------------------------------------------------------------------
(* init() *)

InitCalled(a) ==
  /\ At(a, "idle") /\ GetCredentials(a) /\ Go(a, "init")
  /\ NoRequest /\ UNCHANGED <<auth, frame, button, page, embedded>>

(* The IndexedDB record is read; its answer comes in a later task. *)
InitGoesOn(a) ==
  /\ \/ At(a, "init") /\ caller[a] = "resolved" /\ Resync /\ Go(a, "restore")
     \/ At(a, "init") /\ caller[a] = "rejected" /\ End(a, "done", "rejected") /\ UNCHANGED auth
     \/ /\ At(a, "restore") /\ UNCHANGED auth
        /\ IF StoredToken = "good" THEN Go(a, "restored") ELSE End(a, "done", "resolved")
  /\ NoRequest /\ UNCHANGED sessionVars /\ UNCHANGED <<frame, button, page, embedded>>

Restored(a) ==
  /\ At(a, "restored") /\ SetAuthProtocol("oauth") /\ End(a, "done", "resolved")
  /\ StoreOnly /\ NoRequest /\ UNCHANGED <<frame, button, page, embedded>>

-----------------------------------------------------------------------------
(* signIn() *)

(* In an iframe it asks whether popups are allowed, else who the user is. *)
ResyncAndAsk(a) ==
  /\ Resync
  /\ \/ embedded /\ Go(a, "assert") /\ NoRequest
     \/ ~embedded /\ Go(a, "user") /\ Send(a, User)

(* Mutant: the credentials are not awaited. *)
SignInAtOnce(a) ==
  /\ At(a, "idle") /\ ResyncAndAsk(a) /\ UNCHANGED sessionVars

SignInCalled(a) ==
  /\ At(a, "idle")
  /\ \/ store.initialized = "true" /\ ResyncAndAsk(a) /\ UNCHANGED sessionVars
     \/ /\ store.initialized # "true" /\ GetCredentials(a) /\ Go(a, "signIn")
        /\ NoRequest /\ UNCHANGED auth

SignIn(a) == SignInCalled(a) /\ UNCHANGED <<frame, button, page, embedded>>

SignInGoesOn(a) ==
  /\ At(a, "signIn")
  /\ \/ caller[a] = "resolved" /\ ResyncAndAsk(a)
     \/ caller[a] = "rejected" /\ End(a, "done", "rejected") /\ NoRequest /\ UNCHANGED auth
  /\ UNCHANGED sessionVars /\ UNCHANGED <<frame, button, page, embedded>>

(* #isValidUser(); any failure counts as no user. *)
SignInUser(a) ==
  /\ At(a, "user") /\ request[a].pc \in Ended
  /\ \/ request[a].pc = "resolved" /\ Leave(a, "signin") /\ NoRequest
     \/ /\ Send(a, Elsewhere) /\ Go(a, IF request[a].pc = "resolved" THEN "signup" ELSE "signupLast")
        /\ UNCHANGED page
  /\ UNCHANGED sessionVars /\ UNCHANGED <<auth, frame, button, embedded>>

(* #constructIAMIframeUrl(), #getIAMForgotPasswordURL() *)
IAMUrl(to) == [to |-> to, project |-> auth]

(* #notSignedIn(): the iframe is put into its container, if that exists. *)
RenderSignInIframe(a) ==
  /\ request[a].pc = "resolved"
  /\ frame' = IAMUrl("frame")
  /\ End(a, "done", "resolved") /\ NoRequest

(* Its first failure is caught together with that of #isValidUser(), and tried again. *)
NotSignedIn(a) ==
  /\ At(a, "signup") \/ At(a, "signupLast")
  /\ request[a].pc \in Ended
  /\ \/ RenderSignInIframe(a)
     \/ At(a, "signup") /\ Send(a, Elsewhere) /\ Go(a, "signupLast") /\ UNCHANGED frame
     \/ At(a, "signupLast") /\ End(a, "done", "rejected") /\ NoRequest /\ UNCHANGED frame
  /\ UNCHANGED sessionVars /\ UNCHANGED <<auth, button, page, embedded>>

(* The user's click in the iframe puts another in its place. *)
ForgotPassword ==
  /\ frame.to = "frame" /\ frame' = IAMUrl("password")
  /\ NoRequest /\ UNCHANGED sessionVars /\ UNCHANGED <<auth, act, button, page, embedded>>

(* Mutant: a second call gets a promise that nobody settles. *)
ModalWaits(a) == button = "none" /\ button' = "enabled" /\ Go(a, "button")

(* One button at a time; or assertPopupAuthAllowed() rejects. *)
Modal(a) ==
  \/ button = "none" /\ button' = "enabled" /\ Go(a, "button")
  \/ End(a, "done", "rejected") /\ UNCHANGED button

ShowIframeConfirmModal(a) ==
  /\ At(a, "assert") /\ Modal(a)
  /\ NoRequest /\ UNCHANGED sessionVars /\ UNCHANGED <<auth, frame, page, embedded>>

Click(a) ==
  /\ At(a, "button") /\ button = "enabled"
  /\ button' = "disabled" /\ Go(a, "popup")
  /\ NoRequest /\ UNCHANGED sessionVars /\ UNCHANGED <<auth, frame, page, embedded>>

(* The popup has stored a token. *)
PopupSignsIn(a) ==
  /\ At(a, "popup")
  /\ StoreToken("good")
  /\ SetAuthProtocol("oauth")
  /\ button' = "none" /\ Leave(a, "signin")
  /\ NoRequest /\ UNCHANGED <<flight, fetches, caller, context, version, cookie, marker, now, frame, embedded>>

(* Mutant: the button stays disabled. *)
FailsForGood(a) == End(a, "done", "rejected") /\ UNCHANGED button

(* "Re-enable so user can retry": the promise of signIn() has its answer. *)
FailsForNow(a) == End(a, "button", "rejected") /\ button' = "enabled"

PopupFails(a) ==
  /\ At(a, "popup") /\ FailsForNow(a)
  /\ NoRequest /\ UNCHANGED sessionVars /\ UNCHANGED <<auth, frame, page, embedded>>

-----------------------------------------------------------------------------
(* hostedSignIn(): the string 'false' counts as initialized.  Only where the storage
   refused the defaults is it unset, and then getCredentials() rejects. *)
HostedSignIn(a) ==
  /\ At(a, "idle") /\ caller[Import] # "idle"
  /\ \/ store.initialized # "unset" /\ Leave(a, "hosted")
     \/ store.initialized = "unset" /\ End(a, "done", "rejected") /\ UNCHANGED page
  /\ NoRequest /\ UNCHANGED sessionVars /\ UNCHANGED <<auth, frame, button, embedded>>

SigninWithJwt ==
  /\ "jwt" \in Others /\ caller[Import] # "idle"
  /\ SetAuthProtocol("jwt")
  /\ StoreOnly /\ NoRequest /\ UNCHANGED <<act, frame, button, page, embedded>>

(* signInViaPopup() called by the application, when its popup has signed in. *)
SignInViaPopup ==
  /\ "popup" \in Others /\ caller[Import] # "idle"
  /\ StoreToken("good")
  /\ SetAuthProtocol("oauth")
  /\ NoRequest
  /\ UNCHANGED <<flight, fetches, caller, context, version, cookie, marker, now, act, frame, button, page, embedded>>

-----------------------------------------------------------------------------
(* signOut() *)

(* finishZcrfSignOut() *)
FinishZcrfSignOut(a) ==
  IF embedded THEN Go(a, "revokeLast") /\ UNCHANGED page ELSE Leave(a, "logout")

SignOutCalled(a) ==
  /\ At(a, "idle")
  /\ \/ /\ store.protocol = "jwt"
        /\ ClearStratusJwt /\ store' = Defaults /\ userJwt' = FALSE
        /\ Leave(a, "app") /\ UNCHANGED request
     \/ /\ store.protocol = "oauth"
        /\ Go(a, "revoke") /\ UNCHANGED <<page, store, cookie, marker>> /\ NoRequest
     \/ /\ store.protocol = "zcrf"
        /\ ClearStratusJwt /\ store' = Defaults
        /\ \/ auth \in Appsail /\ Send(a, User) /\ Go(a, "outUser") /\ UNCHANGED page
           \/ auth \notin Appsail /\ FinishZcrfSignOut(a) /\ NoRequest

SignOut(a) ==
  /\ SignOutCalled(a)
  /\ UNCHANGED <<idb, flight, fetches, caller, context, version, now, auth, frame, button, embedded>>

(* AppSail: who is signed in, then the request that signs out.  The first may reject,
   and with it signOut(); the second may fail. *)
SignOutAsks(a) ==
  /\ request[a].pc \in Ended
  /\ \/ /\ At(a, "outUser") /\ request[a].pc = "resolved"
        /\ \/ Leave(a, "app") /\ NoRequest
           \/ Send(a, User) /\ Go(a, "outAsk") /\ UNCHANGED page
     \/ /\ At(a, "outUser") /\ request[a].pc = "rejected"
        /\ End(a, "done", "rejected") /\ NoRequest /\ UNCHANGED page
     \/ /\ At(a, "outAsk") /\ NoRequest
        /\ IF request[a].pc = "resolved" THEN Leave(a, "app") ELSE FinishZcrfSignOut(a)
  /\ UNCHANGED sessionVars /\ UNCHANGED <<auth, frame, button, embedded>>

(* revokeStoredAccessToken() never fails. *)
Revoked(a) ==
  /\ \/ At(a, "revoke") /\ Go(a, "clear")
     \/ At(a, "revokeLast") /\ Go(a, "clearLast")
  /\ NoRequest /\ UNCHANGED sessionVars /\ UNCHANGED <<auth, frame, button, page, embedded>>

(* clearTokenStorage(); an OAuth sign-out then resets the configuration. *)
TokenCleared(a) ==
  /\ At(a, "clear") \/ At(a, "clearLast")
  /\ \/ /\ StoreToken("none") /\ Leave(a, "app")
        /\ store' = IF At(a, "clear") THEN Defaults ELSE store
     \/ End(a, "done", "rejected") /\ UNCHANGED <<idb, store, page>>
  /\ NoRequest
  /\ UNCHANGED <<flight, fetches, caller, context, version, cookie, marker, now, auth, frame, button, embedded>>

-----------------------------------------------------------------------------
(* isUserAuthenticated(), changePassword(); publicSignup() and signUp(), which go elsewhere. *)
Ask(a) ==
  /\ At(a, "idle") /\ Go(a, "asked")
  /\ Send(a, User \cup Elsewhere)
  /\ UNCHANGED sessionVars /\ UNCHANGED <<auth, frame, button, page, embedded>>

AskAnswered(a) ==
  /\ At(a, "asked") /\ request[a].pc \in Ended /\ End(a, "done", request[a].pc)
  /\ NoRequest /\ UNCHANGED sessionVars /\ UNCHANGED <<auth, frame, button, page, embedded>>

-----------------------------------------------------------------------------
WebCall(a) == InitCalled(a) \/ SignIn(a) \/ HostedSignIn(a) \/ SignOut(a) \/ Ask(a) \/ Click(a)

WebStep(a) ==
  \/ InitGoesOn(a) \/ Restored(a) \/ SignInGoesOn(a) \/ SignInUser(a) \/ NotSignedIn(a)
  \/ ShowIframeConfirmModal(a) \/ PopupSignsIn(a) \/ PopupFails(a)
  \/ SignOutAsks(a) \/ Revoked(a) \/ TokenCleared(a) \/ AskAnswered(a)

-----------------------------------------------------------------------------
(* "Always resync instance fields from ConfigStore": a sign-in never sends the user to a
   page, or mounts a frame, of the project `undefined`, whether the configuration was
   fetched by this call, by another, before a sign-out or not at all. *)
SignInNamesProject == \A place \in {frame, page} : place.to \in {"frame", "password", "signin"} => place.project # Nobody

(* A disabled button has a popup under way, a button has one call behind it, and no call
   waits for a button that is gone: the user can always retry. *)
ButtonIsServed ==
  LET waiting == {a \in Acts : act[a].pc \in {"button", "popup"}} IN
  /\ button = "none" <=> waiting = {}
  /\ \A a, b \in waiting : a = b
  /\ button = "disabled" <=> \E a \in waiting : At(a, "popup")

(* "A promise that resolves after credentials are loaded and the redirect is initiated." *)
HostedAfterCredentials ==
  [][\A a \in Acts : page' # page /\ page'.to = "hosted" => store.initialized = "true"]_<<page, store>>

(* Every call is answered, but for a sign-in that waits for its user. *)
ActsSettle ==
  \A a \in Acts : act[a].promise = "pending" ~> (act[a].promise # "pending" \/ act[a].pc \in {"button", "popup"})
=============================================================================

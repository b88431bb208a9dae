---------------------------- MODULE TokenService ----------------------------
(***************************************************************************)
(* What the Connector instances promise the callers of getAccessToken(),   *)
(* whatever cache entries, requests, retries and setters overlap behind    *)
(* it: a caller is served at once from memory, with a token of the current *)
(* configuration, or joins the fetch that is running; a fetch serves all   *)
(* that joined it alike, with a token of a configuration that the          *)
(* connector held since the fetch began, or rejects them all.              *)
(***************************************************************************)
EXTENDS Integers

CONSTANTS Connectors, Callers, Configs, InitialConfig

VARIABLES
  config,  (* each connector's configuration                            *)
  token,   (* the token in its memory, or none                          *)
  fetch,   (* the configurations held since its fetch began, or none    *)
  caller,  (* the callers of getAccessToken()                           *)
  now

vars == <<config, token, fetch, caller, now>>

NoCaller == [st |-> "idle", conn |-> {}, tok |-> {}]

Init ==
  /\ config = [c \in Connectors |-> InitialConfig]
  /\ token = [c \in Connectors |-> {}]
  /\ fetch = [c \in Connectors |-> {}]
  /\ caller = [k \in Callers |-> NoCaller]
  /\ now = 0

Joined(c) == {k \in Callers : caller[k].st = "waiting" /\ c \in caller[k].conn}

(* The connector takes a configuration, perhaps the one it has, and keeps, drops or
   gets a token of it. *)
Reconfigure(c) ==
  /\ config' = [config EXCEPT ![c] = config'[c]]
  /\ config'[c] \in Configs
  /\ token' = [token EXCEPT ![c] = token'[c]]
  /\ \A t \in token'[c] : t.config = config'[c]
  /\ fetch' = [fetch EXCEPT ![c] = IF @ = {} THEN {} ELSE @ \cup {config'[c]}]
  /\ UNCHANGED <<caller, now>>

(* getAccessToken() with a token in memory that has not expired ... *)
Serve(c, k) ==
  /\ caller[k].st # "waiting"
  /\ \E t \in token[c] : t.exp > now
  /\ caller' = [caller EXCEPT ![k] = [st |-> "done", conn |-> {c}, tok |-> token[c]]]
  /\ UNCHANGED <<config, token, fetch, now>>

(* ... and without: it joins the fetch, or starts one. *)
Ask(c, k) ==
  /\ caller[k].st # "waiting"
  /\ ~ \E t \in token[c] : t.exp > now
  /\ caller' = [caller EXCEPT ![k] = [st |-> "waiting", conn |-> {c}, tok |-> {}]]
  /\ fetch' = [fetch EXCEPT ![c] = IF @ = {} THEN {config[c]} ELSE @]
  /\ UNCHANGED <<config, token, now>>

(* The fetch ends: with a token for all that joined it, or with none. *)
Answer(c) ==
  /\ fetch[c] # {}
  /\ \E tok \in {{}} \cup {caller'[k].tok : k \in Joined(c)} :
       /\ \A t \in tok : t.config \in fetch[c]
       /\ caller' = [k \in Callers |->
                       IF k \in Joined(c) THEN [st |-> "done", conn |-> caller[k].conn, tok |-> tok]
                                          ELSE caller[k]]
  /\ fetch' = [fetch EXCEPT ![c] = {}]
  /\ UNCHANGED <<config, token, now>>

Tick ==
  /\ now' = now + 1
  /\ UNCHANGED <<config, token, fetch, caller>>

Next ==
  \/ \E c \in Connectors : Reconfigure(c) \/ Answer(c)
  \/ \E c \in Connectors, k \in Callers : Serve(c, k) \/ Ask(c, k)
  \/ Tick

Spec == Init /\ [][Next]_vars
=============================================================================

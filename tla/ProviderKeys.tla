---------------------------- MODULE ProviderKeys ----------------------------
(***************************************************************************)
(* One provider key of the owner (api/auth/{store,service}.py) and the     *)
(* list of models read with it (api/services/evaluation_options_service.py)*)
(* while requests edit, delete, check and use it. Every SQL statement and  *)
(* every page of the provider's list is one step. Each edit of the secret  *)
(* gives a ciphertext never seen before.                                   *)
(***************************************************************************)
EXTENDS Naturals, FiniteSets

CONSTANTS
  Askers,         \* requests that may be under way at once
  MaxSecrets,     \* bound: secrets stored under the key
  Catalog,        \* the provider's models
  PageOf, MaxListed \* models in a page, in a list

VARIABLES
  key,      \* on file: ciphertext (0: no such key), verified, checks recorded
  issued,   \* ciphertexts issued so far
  accepted, \* history: ciphertexts some check found accepted
  asker,    \* requests
  provider  \* "plain", or "cursor": the mark of the next page may be missing

keyVars == <<key, issued, accepted, asker, provider>>

NoKey  == [cipher |-> 0, verified |-> FALSE, checks |-> 0]
AtRest == [pc |-> "idle", seen |-> 0, used |-> 0, ok |-> FALSE, got |-> 0, answer |-> "none",
           complete |-> FALSE]
Least(x, y) == IF x < y THEN x ELSE y

Become(p, r) == asker' = [asker EXCEPT ![p] = r]
Gone(p)      == Become(p, [AtRest EXCEPT !.answer = "missing"])

---------------------------------------------------------------------------
(* add_key; a key that was deleted does not return under its name. *)
Add ==
  /\ issued = 0 /\ issued' = 1 /\ key' = [NoKey EXCEPT !.cipher = 1]
  /\ UNCHANGED <<accepted, asker, provider>>

(* Every request begins with owned_key. *)
Look(p) ==
  /\ asker[p].pc = "idle" /\ issued > 0
  /\ IF key.cipher = 0 THEN Gone(p)
     ELSE \E what \in {"rename", "replace", "drop", "check", "list"} :
            Become(p, [AtRest EXCEPT !.pc = what, !.seen = key.cipher])
  /\ UNCHANGED <<key, issued, accepted, provider>>

(* update_key: a new secret is not verified; a new name alone keeps what   *)
(* was found of the old one. The row may be gone by now.                   *)
Edit(p) ==
  /\ asker[p].pc \in {"rename", "replace"} /\ Become(p, [AtRest EXCEPT !.pc = "shown"])
  /\ IF asker[p].pc = "replace"
     THEN /\ issued < MaxSecrets /\ issued' = issued + 1
          /\ key' = IF key.cipher = 0 THEN key
                    ELSE [key EXCEPT !.cipher = issued + 1, !.verified = FALSE]
     ELSE UNCHANGED <<key, issued>>
  /\ UNCHANGED <<accepted, provider>>

(* An edit is answered with the row as it is then. *)
Show(p) ==
  /\ asker[p].pc = "shown"
  /\ IF key.cipher = 0 THEN Gone(p) ELSE Become(p, [AtRest EXCEPT !.answer = "edited"])
  /\ UNCHANGED <<key, issued, accepted, provider>>

Drop(p) ==
  /\ asker[p].pc = "drop" /\ key' = NoKey /\ Become(p, [AtRest EXCEPT !.answer = "deleted"])
  /\ UNCHANGED <<issued, accepted, provider>>

---------------------------------------------------------------------------
(* verify_key *)

(* llm_config reads the row again; any failure, also of a row that is      *)
(* gone, is a check that failed.                                           *)
Connect(p) ==
  /\ asker[p].pc = "check"
  /\ \E ok \in IF key.cipher = 0 THEN {FALSE} ELSE BOOLEAN :
       /\ Become(p, [asker[p] EXCEPT !.pc = "record", !.used = key.cipher, !.ok = ok])
       /\ accepted' = IF ok THEN accepted \cup {key.cipher} ELSE accepted
  /\ UNCHANGED <<key, issued, provider>>

(* "A concurrent edit must not mark the replacement key as verified." *)
Concerns(p) == key.cipher = asker[p].seen

(* record_verification *)
Record(p) ==
  /\ asker[p].pc = "record" /\ Become(p, [AtRest EXCEPT !.answer = "checked", !.ok = asker[p].ok])
  /\ key' = IF Concerns(p) THEN [key EXCEPT !.verified = asker[p].ok, !.checks = Least(@ + 1, 2)]
            ELSE key
  /\ UNCHANGED <<issued, accepted, provider>>

---------------------------------------------------------------------------
(* models *)

(* The client of the list: the row read again. *)
OpenList(p) ==
  /\ asker[p].pc = "list"
  /\ IF key.cipher = 0 THEN Become(p, [AtRest EXCEPT !.answer = "unavailable"])
     ELSE Become(p, [asker[p] EXCEPT !.pc = "pages", !.used = key.cipher])
  /\ UNCHANGED <<key, issued, accepted, provider>>

(* A page that was kept whole, without a successor; where the mark of the  *)
(* next page may be missing, the provider must also say that it is the end.*)
Terminal(p, data, more) ==
  ~more /\ data <= MaxListed - asker[p].got /\ (provider = "plain" \/ asker[p].got + data = Catalog)

(* One page. The ten seconds may be over before the next is asked for; a   *)
(* failure answers 503.                                                    *)
Page(p) ==
  /\ asker[p].pc = "pages"
  /\ LET data == Least(PageOf, Catalog - asker[p].got)
         got  == Least(MaxListed, asker[p].got + data)
         rest == asker[p].got + data < Catalog
     IN \/ \E more \in IF rest /\ provider = "cursor" THEN BOOLEAN ELSE {rest} :
             \/ Become(p, [asker[p] EXCEPT !.pc = "recheck", !.got = got,
                             !.complete = got < MaxListed /\ Terminal(p, data, more)])
             \/ got < MaxListed /\ more /\ Become(p, [asker[p] EXCEPT !.got = got])
        \/ Become(p, [AtRest EXCEPT !.answer = "unavailable"])
  /\ UNCHANGED <<key, issued, accepted, provider>>

Unchanged(p) == key.cipher # 0 /\ key.cipher = asker[p].seen

(* "API key changed during model listing" *)
Recheck(p) ==
  /\ asker[p].pc = "recheck"
  /\ Become(p, IF Unchanged(p) THEN [asker[p] EXCEPT !.pc = "idle", !.answer = "listed"]
               ELSE [AtRest EXCEPT !.answer = "conflict"])
  /\ UNCHANGED <<key, issued, accepted, provider>>

---------------------------------------------------------------------------
Init ==
  /\ key = NoKey /\ issued = 0 /\ accepted = {} /\ asker = [p \in Askers |-> AtRest]
  /\ provider \in {"plain", "cursor"}

Next == \/ Add
        \/ \E p \in Askers : \/ Look(p) \/ Edit(p) \/ Show(p) \/ Drop(p) \/ Connect(p) \/ Record(p)
                             \/ OpenList(p) \/ Page(p) \/ Recheck(p)
Spec == Init /\ [][Next]_keyVars

---------------------------------------------------------------------------
(* Properties *)

TypeOK ==
  /\ key.cipher \in 0 .. MaxSecrets /\ key.verified \in BOOLEAN /\ issued \in 0 .. MaxSecrets
  /\ \A p \in Askers : asker[p].got \in 0 .. MaxListed /\ asker[p].seen \in 0 .. issued

(* The secret on file is called verified only when a check found that very *)
(* secret accepted, whoever edits and checks at the same time.             *)
VerifiedIsAccepted == key.verified => key.cipher \in accepted

(* A list of models that is answered was read with one secret, the one     *)
(* that was on file from the first look to the last, and one said to be    *)
(* complete has every model.                                               *)
ListIsHonest ==
  \A p \in Askers : asker[p].answer = "listed" =>
    asker[p].used = asker[p].seen /\ (asker[p].complete => asker[p].got = Catalog)
=============================================================================

--------------------------- MODULE JournalClient ---------------------------
(***************************************************************************)
(* The encrypted journal: the editor of the web client                     *)
(* (JournalEditor.tsx, crypto.ts), the session (store.ts, AuthPanel.tsx)   *)
(* and the endpoints that store and list entries (journal_http.go). What   *)
(* the user does next and the answers to what was done before arrive in    *)
(* any order. Of the mobile client only signing in again is here: its      *)
(* container derives and saves in the same order, but crypto.ts there      *)
(* encrypts nothing.                                                       *)
(***************************************************************************)
EXTENDS Naturals, FiniteSets

CONSTANTS Users, Passphrases,   \* of eight characters or more
          Saves,                \* clicks on Encrypt & Save, one entry each
          None,
          MaxRequests,          \* bound: sign-ins and lists under way
          MaxAbandoned          \* bound: for typing on while derivations run

ASSUME JournalAssumption == /\ None \notin Users \cup Passphrases \cup Saves
                            /\ MaxRequests \in Nat /\ MaxAbandoned \in Nat

VARIABLES session,      \* whose token and id the store holds
          logins,       \* sign-ins that are not answered yet
          passphrase,   \* in the input field; None if too short
          cryptoKey,    \* the key in use, as what it was derived from
          deriving,     \* the derivation the last effect started
          abandoned,    \* derivations whose effect was cleaned up
          upToDate,     \* history: the last effect cleared the key or set it
          save,         \* where each save is
          click,        \* what handleSaveToNetwork captured
          rows,         \* journal_entries
          fetches,      \* lists asked for, with their answers
          entries       \* the list on the screen

keyVars == <<passphrase, cryptoKey, deriving, abandoned, upToDate>>
saveVars == <<save, click, rows>>
vars == <<session, logins, keyVars, saveVars, fetches, entries>>

\* Mutant: one salt for everybody.
KeyOfSharedSalt(p, u) == [passphrase |-> p, salt |-> None]

\* deriveIsolationKey: PBKDF2 of the passphrase with the salt of the user.
Key(p, u) == [passphrase |-> p, salt |-> u]
Keys == [passphrase : Passphrases, salt : Users]
Clicks == [key : Keys, user : Users, shown : Passphrases \cup {None}, upToDate : BOOLEAN]
Rows == [owner : Users, salt : Users, key : Keys]

ASSUME NoneAssumption == None \notin Keys \cup Clicks

TypeOK == /\ session \in Users \cup {None}
          /\ logins \subseteq Users
          /\ passphrase \in Passphrases \cup {None}
          /\ cryptoKey \in Keys \cup {None}
          /\ deriving \in Keys \cup {None}
          /\ abandoned \subseteq Keys
          /\ upToDate \in BOOLEAN
          /\ save \in [Saves -> {"new", "encrypting", "posting", "stored", "done"}]
          /\ click \in [Saves -> Clicks \cup {None}]
          /\ DOMAIN rows \subseteq Saves /\ rows \in [DOMAIN rows -> Rows]
          /\ fetches \subseteq [user : Users, answer : {None} \cup SUBSET Saves]
          /\ entries \subseteq Saves

Init == /\ session = None
        /\ logins = {}
        /\ passphrase = None
        /\ cryptoKey = None
        /\ deriving = None
        /\ abandoned = {}
        /\ upToDate = TRUE
        /\ save = [s \in Saves |-> "new"]
        /\ click = [s \in Saves |-> None]
        /\ rows = <<>>
        /\ fetches = {}
        /\ entries = {}
-----------------------------------------------------------------------------
(* Passphrase, session and key.                                            *)

\* useEffect(..., [passphrase, userSalt]), after the cleanup of its last run.
KeyEffect(p, u) ==
    /\ abandoned' = IF deriving = None THEN abandoned ELSE abandoned \cup {deriving}
    /\ IF p # None /\ u # None
       THEN /\ deriving' = Key(p, u)
            /\ upToDate' = FALSE
            /\ UNCHANGED cryptoKey
       ELSE /\ deriving' = None
            /\ upToDate' = TRUE
            /\ cryptoKey' = None

TypePassphrase == \E p \in (Passphrases \cup {None}) \ {passphrase} :
    /\ Cardinality(abandoned) < MaxAbandoned
    /\ passphrase' = p
    /\ KeyEffect(p, session)
    /\ UNCHANGED <<session, logins, saveVars, fetches, entries>>

Derived == /\ deriving # None
           /\ cryptoKey' = deriving
           /\ deriving' = None
           /\ upToDate' = TRUE
           /\ UNCHANGED <<session, logins, passphrase, abandoned, saveVars, fetches, entries>>

\* The key that was there stays.
DerivationFails == /\ deriving # None
                   /\ deriving' = None
                   /\ UNCHANGED <<session, logins, passphrase, cryptoKey, abandoned,
                                  upToDate, saveVars, fetches, entries>>

\* Mutant: no isMounted.
AbandonedEndsUnguarded == \E k \in abandoned :
    /\ abandoned' = abandoned \ {k}
    /\ cryptoKey' = k
    /\ UNCHANGED <<session, logins, passphrase, deriving, upToDate, saveVars, fetches,
                   entries>>

\* isMounted is false: the result is dropped.
AbandonedEnds == \E k \in abandoned :
    /\ abandoned' = abandoned \ {k}
    /\ UNCHANGED <<session, logins, passphrase, cryptoKey, deriving, upToDate, saveVars,
                   fetches, entries>>

\* HomeScreen.tsx lets a signed-in user sign in; AuthPanel.tsx lets one click
\* again before the first answer.
Submit(u) == /\ u \notin logins
             /\ Cardinality(logins) + Cardinality(fetches) < MaxRequests
             /\ logins' = logins \cup {u}
             /\ UNCHANGED <<session, keyVars, saveVars, fetches, entries>>

\* The token is another one in any case, the salt if the user is.
SignedIn(u) == /\ u \in logins
               /\ logins' = logins \ {u}
               /\ session' = u
               /\ fetches' = fetches \cup {[user |-> u, answer |-> None]}
               /\ IF u = session
                  THEN UNCHANGED keyVars
                  ELSE KeyEffect(passphrase, u) /\ UNCHANGED passphrase
               /\ UNCHANGED <<saveVars, entries>>

Refused(u) == /\ u \in logins
              /\ logins' = logins \ {u}
              /\ UNCHANGED <<session, keyVars, saveVars, fetches, entries>>

\* clearSession: the list stays, and so does the passphrase.
Logout == /\ session # None
          /\ session' = None
          /\ KeyEffect(passphrase, None)
          /\ UNCHANGED <<passphrase, logins, saveVars, fetches, entries>>
-----------------------------------------------------------------------------
(* handleSaveToNetwork and createJournalEntry.                             *)

Click(s) == /\ save[s] = "new"
            /\ session # None /\ cryptoKey # None
            /\ save' = [save EXCEPT ![s] = "encrypting"]
            /\ click' = [click EXCEPT ![s] =
                   [key |-> cryptoKey, user |-> session, shown |-> passphrase,
                    upToDate |-> upToDate]]
            /\ UNCHANGED <<session, logins, keyVars, rows, fetches, entries>>

Encrypted(s) == /\ save[s] = "encrypting"
                /\ save' = [save EXCEPT ![s] = "posting"]
                /\ UNCHANGED <<session, logins, keyVars, click, rows, fetches, entries>>

\* The owner is the user of the token; the rest is the body.
Insert(s) == LET c == click[s] IN
             /\ save[s] = "posting"
             /\ rows' = [t \in DOMAIN rows \cup {s} |->
                    IF t = s THEN [owner |-> c.user, salt |-> c.user, key |-> c.key]
                    ELSE rows[t]]
             /\ save' = [save EXCEPT ![s] = "stored"]
             /\ UNCHANGED <<session, logins, keyVars, click, fetches, entries>>

\* Before or after the commit: a failure, or an answer that is lost.
SaveFails(s) == /\ save[s] \in {"encrypting", "posting", "stored"}
                /\ save' = [save EXCEPT ![s] = "done"]
                /\ UNCHANGED <<session, logins, keyVars, click, rows, fetches, entries>>

Saved(s) == /\ save[s] = "stored"
            /\ save' = [save EXCEPT ![s] = "done"]
            /\ entries' = entries \cup {s}
            /\ UNCHANGED <<session, logins, keyVars, click, rows, fetches>>
-----------------------------------------------------------------------------
(* useEffect(..., [token]) and listJournalEntries.                         *)

\* A part of the entries if there are more than a hundred, or if the database
\* fails between two rows: nobody asks rows.Err.
Select(f) == /\ f \in fetches
             /\ f.answer = None
             /\ \E part \in SUBSET {s \in DOMAIN rows : rows[s].owner = f.user} :
                    fetches' = (fetches \ {f}) \cup {[f EXCEPT !.answer = part]}
             /\ UNCHANGED <<session, logins, keyVars, saveVars, entries>>

\* Whatever the session is by now.
Fetched(f) == /\ f \in fetches
              /\ f.answer # None
              /\ entries' = f.answer
              /\ fetches' = fetches \ {f}
              /\ UNCHANGED <<session, logins, keyVars, saveVars>>

FetchFails(f) == /\ f \in fetches
                 /\ entries' = {}
                 /\ fetches' = fetches \ {f}
                 /\ UNCHANGED <<session, logins, keyVars, saveVars>>
-----------------------------------------------------------------------------
Next == \/ TypePassphrase \/ Derived \/ DerivationFails \/ AbandonedEnds \/ Logout
        \/ \E u \in Users : Submit(u) \/ SignedIn(u) \/ Refused(u)
        \/ \E s \in Saves : Click(s) \/ Encrypted(s) \/ Insert(s) \/ SaveFails(s) \/ Saved(s)
        \/ \E f \in fetches : Select(f) \/ Fetched(f) \/ FetchFails(f)

Spec == Init /\ [][Next]_vars
-----------------------------------------------------------------------------
\* Entries whose save was clicked while no key was being derived and none had
\* failed to be; the others are under a key the screen does not show.
Settled == {s \in DOMAIN rows : click[s].upToDate}

\* A settled entry belongs to the user who clicked, and opens with the
\* passphrase that was shown and the salt its row names, however late
\* derivations end and sessions change while it is on its way.
EntriesOpenWithWhatWasShown ==
    \A s \in Settled : /\ rows[s].key = Key(click[s].shown, rows[s].salt)
                       /\ rows[s].owner = rows[s].salt

\* The list may show entries of an account signed in before, as answers are
\* not tied to a session; a key that is up to date does not open them, even if
\* both accounts use one passphrase.
ForeignEntriesStayClosed ==
    upToDate => \A s \in Settled \cap entries :
                    rows[s].owner # session => rows[s].key # cryptoKey
=============================================================================

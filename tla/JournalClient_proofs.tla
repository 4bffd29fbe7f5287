------------------------ MODULE JournalClient_proofs ------------------------
(***************************************************************************)
(* Proofs about JournalClient for any users, passphrases and saves. No     *)
(* property mentions the key before a click, so the invariant adds what    *)
(* the effect keeps between passphrase, session and key (KeyInv), what a   *)
(* click therefore captures (ClickInv), and that a row is what its click   *)
(* captured (RowInv).                                                      *)
(***************************************************************************)
EXTENDS JournalClient, TLAPS

KeyInv == /\ deriving # None => /\ passphrase # None /\ session # None
                                /\ deriving = Key(passphrase, session)
          /\ (upToDate /\ cryptoKey # None) => /\ passphrase # None /\ session # None
                                               /\ cryptoKey = Key(passphrase, session)

ClickInv == \A s \in Saves : save[s] \in {"encrypting", "posting", "stored"} =>
                /\ click[s] # None
                /\ click[s].upToDate => click[s].key = Key(click[s].shown, click[s].user)

RowInv == \A s \in DOMAIN rows :
              /\ save[s] \in {"stored", "done"}
              /\ click[s] # None
              /\ rows[s] = [owner |-> click[s].user, salt |-> click[s].user,
                            key |-> click[s].key]
              /\ click[s].upToDate => click[s].key = Key(click[s].shown, click[s].user)

IInv == TypeOK /\ KeyInv /\ ClickInv /\ RowInv

LEMMA InitInv == Init => IInv
BY DEF Init, IInv, TypeOK, KeyInv, ClickInv, RowInv

LEMMA KeyFact == ASSUME NEW p \in Passphrases, NEW u \in Users
                 PROVE  Key(p, u) \in Keys
BY DEF Key, Keys

\* What the effect does keeps the key in step with what it was run for.
LEMMA KeyEffectFact ==
    ASSUME TypeOK, NEW p \in Passphrases \cup {None}, NEW u \in Users \cup {None},
           KeyEffect(p, u), passphrase' = p, session' = u
    PROVE  /\ KeyInv'
           /\ cryptoKey' \in Keys \cup {None} /\ deriving' \in Keys \cup {None}
           /\ abandoned' \subseteq Keys /\ upToDate' \in BOOLEAN
<1>1. abandoned' \subseteq Keys
  BY DEF KeyEffect, TypeOK
<1>2. CASE p # None /\ u # None
  <2>1. Key(p, u) \in Keys
    BY <1>2, KeyFact
  <2> QED BY <1>1, <1>2, <2>1 DEF KeyEffect, KeyInv, TypeOK
<1>3. CASE ~(p # None /\ u # None)
  BY <1>1, <1>3 DEF KeyEffect, KeyInv, TypeOK
<1> QED BY <1>2, <1>3

\* The steps about passphrase and session leave saves alone.
LEMMA SavesKept == ASSUME IInv, UNCHANGED saveVars
                   PROVE  ClickInv' /\ RowInv'
BY DEF IInv, saveVars, ClickInv, RowInv

LEMMA TypePassphraseInv == ASSUME IInv, TypePassphrase
                           PROVE  IInv'
<1>1. PICK p \in Passphrases \cup {None} :
          /\ passphrase' = p /\ KeyEffect(p, session)
          /\ UNCHANGED <<session, logins, saveVars, fetches, entries>>
  BY DEF TypePassphrase
<1>2. session \in Users \cup {None} /\ session' = session
  BY <1>1 DEF IInv, TypeOK
<1>3. /\ KeyInv'
      /\ cryptoKey' \in Keys \cup {None} /\ deriving' \in Keys \cup {None}
      /\ abandoned' \subseteq Keys /\ upToDate' \in BOOLEAN
  BY <1>1, <1>2, KeyEffectFact DEF IInv
<1>4. ClickInv' /\ RowInv'
  BY <1>1, SavesKept
<1>5. TypeOK'
  BY <1>1, <1>3 DEF IInv, TypeOK, saveVars
<1> QED BY <1>3, <1>4, <1>5 DEF IInv

LEMMA DerivedInv == ASSUME IInv, Derived
                    PROVE  IInv'
<1>1. ClickInv' /\ RowInv'
  BY SavesKept DEF Derived
<1>2. TypeOK' /\ KeyInv'
  BY DEF Derived, IInv, TypeOK, KeyInv, saveVars
<1> QED BY <1>1, <1>2 DEF IInv

LEMMA DerivationFailsInv == ASSUME IInv, DerivationFails
                            PROVE  IInv'
<1>1. ClickInv' /\ RowInv'
  BY SavesKept DEF DerivationFails
<1>2. TypeOK' /\ KeyInv'
  BY DEF DerivationFails, IInv, TypeOK, KeyInv, saveVars
<1> QED BY <1>1, <1>2 DEF IInv

LEMMA AbandonedEndsInv == ASSUME IInv, AbandonedEnds
                          PROVE  IInv'
<1>1. ClickInv' /\ RowInv'
  BY SavesKept DEF AbandonedEnds
<1>2. TypeOK' /\ KeyInv'
  BY DEF AbandonedEnds, IInv, TypeOK, KeyInv, saveVars
<1> QED BY <1>1, <1>2 DEF IInv

LEMMA LogoutInv == ASSUME IInv, Logout
                   PROVE  IInv'
<1>1. passphrase \in Passphrases \cup {None} /\ passphrase' = passphrase
  BY DEF Logout, IInv, TypeOK
<1>2. /\ KeyInv'
      /\ cryptoKey' \in Keys \cup {None} /\ deriving' \in Keys \cup {None}
      /\ abandoned' \subseteq Keys /\ upToDate' \in BOOLEAN
  BY <1>1, KeyEffectFact DEF IInv, Logout
<1>3. ClickInv' /\ RowInv'
  BY SavesKept DEF Logout
<1>4. TypeOK'
  BY <1>1, <1>2 DEF Logout, IInv, TypeOK, saveVars
<1> QED BY <1>2, <1>3, <1>4 DEF IInv

LEMMA SubmitInv == ASSUME IInv, NEW u \in Users, Submit(u)
                   PROVE  IInv'
<1>1. ClickInv' /\ RowInv'
  BY SavesKept DEF Submit
<1>2. TypeOK' /\ KeyInv'
  BY DEF Submit, IInv, TypeOK, KeyInv, keyVars, saveVars
<1> QED BY <1>1, <1>2 DEF IInv

LEMMA SignedInInv == ASSUME IInv, NEW u \in Users, SignedIn(u)
                     PROVE  IInv'
<1>1. ClickInv' /\ RowInv'
  BY SavesKept DEF SignedIn
<1>2. /\ KeyInv'
      /\ cryptoKey' \in Keys \cup {None} /\ deriving' \in Keys \cup {None}
      /\ abandoned' \subseteq Keys /\ upToDate' \in BOOLEAN
      /\ passphrase' = passphrase
  <2>1. CASE u = session
    BY <2>1 DEF SignedIn, IInv, TypeOK, KeyInv, keyVars
  <2>2. CASE u # session
    <3>1. KeyEffect(passphrase, u) /\ passphrase' = passphrase /\ session' = u
      BY <2>2 DEF SignedIn
    <3> QED BY <3>1, KeyEffectFact DEF IInv, TypeOK
  <2> QED BY <2>1, <2>2
<1>3. TypeOK'
  <2>1. fetches' \subseteq [user : Users, answer : {None} \cup SUBSET Saves]
    BY DEF SignedIn, IInv, TypeOK
  <2> QED BY <1>2, <2>1 DEF SignedIn, IInv, TypeOK, saveVars
<1> QED BY <1>1, <1>2, <1>3 DEF IInv

LEMMA RefusedInv == ASSUME IInv, NEW u \in Users, Refused(u)
                    PROVE  IInv'
<1>1. ClickInv' /\ RowInv'
  BY SavesKept DEF Refused
<1>2. TypeOK' /\ KeyInv'
  BY DEF Refused, IInv, TypeOK, KeyInv, keyVars, saveVars
<1> QED BY <1>1, <1>2 DEF IInv
-----------------------------------------------------------------------------
(* Saves and lists, which leave the key alone.                             *)

LEMMA KeyKept == ASSUME IInv, UNCHANGED <<session, keyVars>>
                 PROVE  KeyInv'
BY DEF IInv, KeyInv, keyVars

LEMMA ClickStepInv == ASSUME IInv, NEW s \in Saves, Click(s)
                      PROVE  IInv'
<1> DEFINE c == [key |-> cryptoKey, user |-> session, shown |-> passphrase,
                 upToDate |-> upToDate]
<1>1. c \in Clicks /\ c # None
  BY NoneAssumption DEF Click, IInv, TypeOK, Clicks
<1>2. /\ save' = [save EXCEPT ![s] = "encrypting"] /\ click' = [click EXCEPT ![s] = c]
      /\ save[s] = "new" /\ rows' = rows
  BY DEF Click
<1>3. c.upToDate => c.key = Key(c.shown, c.user)
  BY DEF Click, IInv, KeyInv
<1> HIDE DEF c
<1>4. TypeOK'
  BY <1>1, <1>2 DEF Click, IInv, TypeOK, keyVars
<1>5. ClickInv' /\ RowInv'
  BY <1>1, <1>2, <1>3 DEF IInv, TypeOK, ClickInv, RowInv
<1> QED BY <1>4, <1>5, KeyKept DEF IInv, Click

LEMMA EncryptedInv == ASSUME IInv, NEW s \in Saves, Encrypted(s)
                      PROVE  IInv'
<1>1. KeyInv'
  BY KeyKept DEF Encrypted
<1>2. TypeOK' /\ ClickInv' /\ RowInv'
  BY DEF Encrypted, IInv, TypeOK, ClickInv, RowInv, keyVars
<1> QED BY <1>1, <1>2 DEF IInv

LEMMA InsertInv == ASSUME IInv, NEW s \in Saves, Insert(s)
                   PROVE  IInv'
<1> DEFINE row == [owner |-> click[s].user, salt |-> click[s].user, key |-> click[s].key]
<1>1. s \notin DOMAIN rows /\ click[s] \in Clicks /\ click[s] # None
  BY DEF Insert, IInv, TypeOK, ClickInv, RowInv
<1>2. row \in Rows
  BY <1>1 DEF Clicks, Rows
<1>3. /\ DOMAIN rows' = DOMAIN rows \cup {s} /\ rows'[s] = row
      /\ \A t \in DOMAIN rows : rows'[t] = rows[t]
      /\ rows' = [t \in DOMAIN rows' |-> rows'[t]]
  BY <1>1 DEF Insert
<1>4. /\ save' = [save EXCEPT ![s] = "stored"] /\ save[s] = "posting" /\ click' = click
  BY DEF Insert
<1>5. row = [owner |-> click'[s].user, salt |-> click'[s].user, key |-> click'[s].key]
  BY <1>4
<1> HIDE DEF row
<1>6. DOMAIN rows' \subseteq Saves /\ rows' \in [DOMAIN rows' -> Rows]
  BY <1>2, <1>3 DEF IInv, TypeOK
<1>7. TypeOK'
  BY <1>4, <1>6 DEF Insert, IInv, TypeOK, keyVars
<1>8. ClickInv'
  BY <1>4 DEF IInv, TypeOK, ClickInv
<1>9. RowInv'
  BY <1>1, <1>3, <1>4, <1>5 DEF IInv, TypeOK, ClickInv, RowInv
<1> QED BY <1>7, <1>8, <1>9, KeyKept DEF IInv, Insert

LEMMA SaveFailsInv == ASSUME IInv, NEW s \in Saves, SaveFails(s)
                      PROVE  IInv'
<1>1. KeyInv'
  BY KeyKept DEF SaveFails
<1>2. TypeOK' /\ ClickInv' /\ RowInv'
  BY DEF SaveFails, IInv, TypeOK, ClickInv, RowInv, keyVars
<1> QED BY <1>1, <1>2 DEF IInv

LEMMA SavedInv == ASSUME IInv, NEW s \in Saves, Saved(s)
                  PROVE  IInv'
<1>1. KeyInv'
  BY KeyKept DEF Saved
<1>2. TypeOK' /\ ClickInv' /\ RowInv'
  BY DEF Saved, IInv, TypeOK, ClickInv, RowInv, keyVars
<1> QED BY <1>1, <1>2 DEF IInv

LEMMA FetchInv == ASSUME IInv, NEW f \in fetches, Select(f) \/ Fetched(f) \/ FetchFails(f)
                  PROVE  IInv'
<1>1. UNCHANGED <<session, logins, keyVars, saveVars>>
  BY DEF Select, Fetched, FetchFails
<1>2. KeyInv' /\ ClickInv' /\ RowInv'
  BY <1>1, KeyKept, SavesKept
<1>3. f \in [user : Users, answer : {None} \cup SUBSET Saves]
  BY DEF IInv, TypeOK
<1>4. fetches' \subseteq [user : Users, answer : {None} \cup SUBSET Saves]
      /\ entries' \subseteq Saves
  <2>1. CASE Select(f)
    <3>1. {s \in DOMAIN rows : rows[s].owner = f.user} \in SUBSET Saves
      BY DEF IInv, TypeOK
    <3> QED BY <1>3, <2>1, <3>1 DEF Select, IInv, TypeOK
  <2>2. CASE Fetched(f)
    BY <1>3, <2>2 DEF Fetched, IInv, TypeOK
  <2>3. CASE FetchFails(f)
    BY <2>3 DEF FetchFails, IInv, TypeOK
  <2> QED BY <2>1, <2>2, <2>3
<1>5. TypeOK'
  BY <1>1, <1>4 DEF IInv, TypeOK, keyVars, saveVars
<1> QED BY <1>2, <1>5 DEF IInv
-----------------------------------------------------------------------------
\* The inductive invariant holds in every reachable state.
THEOREM InductiveInvariant == Spec => []IInv
<1>1. IInv /\ [Next]_vars => IInv'
  <2> SUFFICES ASSUME IInv, [Next]_vars PROVE IInv'
    OBVIOUS
  <2>1. CASE TypePassphrase BY <2>1, TypePassphraseInv
  <2>2. CASE Derived BY <2>2, DerivedInv
  <2>3. CASE DerivationFails BY <2>3, DerivationFailsInv
  <2>4. CASE AbandonedEnds BY <2>4, AbandonedEndsInv
  <2>5. CASE Logout BY <2>5, LogoutInv
  <2>6. ASSUME NEW u \in Users, Submit(u) \/ SignedIn(u) \/ Refused(u) PROVE IInv'
    BY <2>6, SubmitInv, SignedInInv, RefusedInv
  <2>7. ASSUME NEW s \in Saves,
               Click(s) \/ Encrypted(s) \/ Insert(s) \/ SaveFails(s) \/ Saved(s)
        PROVE  IInv'
    BY <2>7, ClickStepInv, EncryptedInv, InsertInv, SaveFailsInv, SavedInv
  <2>8. ASSUME NEW f \in fetches, Select(f) \/ Fetched(f) \/ FetchFails(f) PROVE IInv'
    BY <2>8, FetchInv
  <2>9. CASE UNCHANGED vars
    <3>1. KeyInv' /\ ClickInv' /\ RowInv'
      BY <2>9, KeyKept, SavesKept DEF vars
    <3>2. TypeOK'
      BY <2>9 DEF vars, keyVars, saveVars, IInv, TypeOK
    <3> QED BY <3>1, <3>2 DEF IInv
  <2> QED BY <2>1, <2>2, <2>3, <2>4, <2>5, <2>6, <2>7, <2>8, <2>9 DEF Next
<1> QED BY <1>1, InitInv, PTL DEF Spec

\* Every variable keeps its type: keys in use and keys of entries are derived
\* from a passphrase and the salt of a user.
THEOREM TypeCorrectness == Spec => []TypeOK
<1>1. IInv => TypeOK
  BY DEF IInv
<1> QED BY <1>1, InductiveInvariant, PTL

\* A settled entry opens with the passphrase shown at the click and the salt its
\* row names, and belongs to the user who clicked, for any users, passphrases
\* and saves.
THEOREM EntriesOpen == Spec => []EntriesOpenWithWhatWasShown
<1>1. IInv => EntriesOpenWithWhatWasShown
  BY DEF IInv, TypeOK, RowInv, EntriesOpenWithWhatWasShown, Settled
<1> QED BY <1>1, InductiveInvariant, PTL

\* An up-to-date key does not open an entry of another account, whatever the list
\* shows.
THEOREM ForeignEntries == Spec => []ForeignEntriesStayClosed
<1>1. ASSUME IInv, upToDate, NEW s \in Settled, rows[s].owner # session
      PROVE  rows[s].key # cryptoKey
  <2>1. rows[s].key = Key(click[s].shown, rows[s].owner) /\ rows[s].key # None
    BY <1>1, NoneAssumption DEF IInv, TypeOK, RowInv, Settled, Rows
  <2>2. CASE cryptoKey = None
    BY <2>1, <2>2
  <2>3. CASE cryptoKey # None
    <3>1. cryptoKey = Key(passphrase, session)
      BY <1>1, <2>3 DEF IInv, KeyInv
    <3> QED BY <1>1, <2>1, <3>1 DEF Key
  <2> QED BY <2>2, <2>3
<1>2. IInv => ForeignEntriesStayClosed
  BY <1>1 DEF ForeignEntriesStayClosed
<1> QED BY <1>2, InductiveInvariant, PTL
=============================================================================

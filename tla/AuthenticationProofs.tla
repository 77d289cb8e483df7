------------------------ MODULE AuthenticationProofs ------------------------
(***************************************************************************)
(* Nobody waits for a channel that was lost and nobody who was woken reads *)
(* half a key, with any number of goroutines, AUTH messages and keys.      *)
(***************************************************************************)
EXTENDS Authentication, TLAPS

\* A word of a key is in its place.
Written(string, w) == IF w = "length" THEN string[w] = "full" ELSE string[w] \in Keys

\* All channels but the one in the field are closed.
NoneLost == 1..made \subseteq closed \cup {Authed}

\* What an AUTH message has stored stays, and it closes the channel when both words are stored.
KeysStay ==
  /\ \A a \in Auths : at[a] \in {"store", "close"} =>
       \A w \in Words \ todo[a] : Written(AuthedPublicKey, w)
  /\ \A a \in Auths : at[a] = "start" => todo[a] = Words
  /\ \A a \in Auths : at[a] = "close" => todo[a] = {}
  /\ closed # {} \/ late # {} => Whole(AuthedPublicKey)

\* Who began to read a whole key has loaded good words only.
ReadersAreSafe ==
  /\ woken \subseteq late
  /\ \A g \in Goroutines : at[g] \notin {"read", "done"} => todo[g] = Words
  /\ \A g \in late : at[g] \in {"read", "done"}
  /\ \A g \in late : at[g] = "done" => todo[g] = {}
  /\ \A g \in late : \A w \in Words \ todo[g] : Written(seen[g], w)

IInv == TypeOK /\ NoneLost /\ KeysStay /\ ReadersAreSafe

USE AuthsAssumption, BlankAssumption

\* A string is whole when both of its words are there.
LEMMA WholeIsWritten ==
  ASSUME NEW string \in [Words -> Keys \cup {Blank, "full"}]
  PROVE  Whole(string) <=> \A w \in Words : Written(string, w)
  BY DEF Whole, Words, Written

LEMMA InitIInv == Init => IInv
  <1> SUFFICES ASSUME Init PROVE IInv
    OBVIOUS
  <1>1. TypeOK
    <2>1. made = 0 /\ made \in Nat /\ closed = {} /\ closed \subseteq 1..made /\ Authed \in (0..made) \ closed
      BY DEF Init, Nil
    <2>2. AuthedPublicKey \in [Words -> Keys \cup {Blank, "full"}]
      BY DEF Init, EmptyString
    <2>3. at \in [Goroutines \cup Auths ->
                   {"start", "challenge", "look", "wait", "read", "store", "close", "done"}]
      BY DEF Init
    <2>4. channel \in [Goroutines -> 0..made] /\ todo \in [Goroutines \cup Auths -> SUBSET Words]
      BY <2>1 DEF Init, Nil
    <2>5. seen \in [Goroutines -> [Words -> Keys \cup {Blank, "full"}]]
      BY DEF Init, EmptyString
    <2> QED
      BY <2>1, <2>2, <2>3, <2>4, <2>5, ZenonT(30) DEF Init, TypeOK
  <1>2. NoneLost
    BY DEF Init, NoneLost, Nil
  <1>3. KeysStay
    BY DEF Init, KeysStay
  <1>4. ReadersAreSafe
    BY DEF Init, ReadersAreSafe
  <1> QED
    BY <1>1, <1>2, <1>3, <1>4 DEF IInv

\* The types, for each action.
LEMMA TypeStep == TypeOK /\ [Next]_vars => TypeOK'
  <1> SUFFICES ASSUME TypeOK, [Next]_vars PROVE TypeOK'
    OBVIOUS
  <1> USE DEF TypeOK, Goto, Nil
  <1>1. ASSUME NEW g \in Goroutines, RequestAuth(g) PROVE TypeOK'
    BY <1>1, SMTT(30) DEF RequestAuth
  <1>2. ASSUME NEW g \in Goroutines, SendChallenge(g) PROVE TypeOK'
    BY <1>2 DEF SendChallenge
  <1>3. ASSUME NEW g \in Goroutines, Look(g) PROVE TypeOK'
    BY <1>3 DEF Look
  <1>4. ASSUME NEW g \in Goroutines, Wake(g) PROVE TypeOK'
    BY <1>4 DEF Wake
  <1>5. ASSUME NEW g \in Goroutines, GetAuthed(g) PROVE TypeOK'
    BY <1>5 DEF GetAuthed
  <1>6. ASSUME NEW g \in Goroutines, NEW w \in Words, LoadWord(g, w) PROVE TypeOK'
    BY <1>6 DEF LoadWord
  <1>7. ASSUME NEW a \in Auths, Auth(a) PROVE TypeOK'
    BY <1>7 DEF Auth
  <1>8. ASSUME NEW a \in Auths, NEW w \in Words, StoreWord(a, w) PROVE TypeOK'
    BY <1>8 DEF StoreWord, Word, Words
  <1>9. ASSUME NEW a \in Auths, CloseAuthed(a) PROVE TypeOK'
    BY <1>9 DEF CloseAuthed
  <1>10. CASE UNCHANGED vars
    BY <1>10 DEF vars
  <1> QED
    BY <1>1, <1>2, <1>3, <1>4, <1>5, <1>6, <1>7, <1>8, <1>9, <1>10 DEF Next

\* A channel is made when there is none, and leaves the field when it is closed.
LEMMA NoneLostStep == TypeOK /\ NoneLost /\ [Next]_vars => NoneLost'
  <1> SUFFICES ASSUME TypeOK, NoneLost, [Next]_vars PROVE NoneLost'
    OBVIOUS
  <1>1. CASE \E g \in Goroutines : RequestAuth(g)
    BY <1>1 DEF RequestAuth, TypeOK, NoneLost, Nil
  <1>2. CASE \E a \in Auths : CloseAuthed(a)
    BY <1>2 DEF CloseAuthed, TypeOK, NoneLost, Nil
  <1>3. CASE UNCHANGED <<made, closed, Authed>>
    BY <1>3 DEF NoneLost
  <1> QED
    BY <1>1, <1>2, <1>3
    DEF Next, vars, SendChallenge, Look, Wake, GetAuthed, LoadWord, Auth, StoreWord

\* Words are only ever overwritten with words of a key.
LEMMA WordsStay ==
  ASSUME TypeOK, NEW a \in Auths, NEW w \in Words, StoreWord(a, w)
  PROVE  /\ \A v \in Words : Written(AuthedPublicKey, v) => Written(AuthedPublicKey', v)
         /\ Written(AuthedPublicKey', w)
  BY DEF StoreWord, TypeOK, Written, Word, Words

LEMMA KeysStayStep == TypeOK /\ ReadersAreSafe /\ KeysStay /\ [Next]_vars => KeysStay'
  <1> SUFFICES ASSUME TypeOK, ReadersAreSafe, KeysStay, [Next]_vars PROVE KeysStay'
    OBVIOUS
  <1>1. ASSUME NEW g \in Goroutines,
               RequestAuth(g) \/ SendChallenge(g) \/ Look(g) \/ Wake(g) \/ GetAuthed(g)
                 \/ \E w \in Words : LoadWord(g, w)
        PROVE  KeysStay'
    <2>1. /\ \A a \in Auths : at'[a] = at[a] /\ todo'[a] = todo[a]
          /\ UNCHANGED <<AuthedPublicKey, closed>>
          /\ late' = late \/ Whole(AuthedPublicKey) \/ (late' # {} => late # {})
      BY <1>1 DEF RequestAuth, SendChallenge, Look, Wake, GetAuthed, LoadWord, Goto, TypeOK
    <2> QED
      BY <2>1 DEF KeysStay, Written, Whole
  <1>2. ASSUME NEW a \in Auths, Auth(a) PROVE KeysStay'
    <2>1. \A b \in Auths : at'[b] \in {"start", "store", "close"} =>
            todo'[b] = todo[b] /\ (at'[b] = at[b] \/ (at'[b] = "store" /\ todo[b] = Words))
      <3>1. at[a] = "start" /\ todo[a] = Words /\ UNCHANGED todo
        BY <1>2 DEF Auth, KeysStay
      <3>2. at'[a] \in {"store", "done"} /\ \A b \in Auths : b # a => at'[b] = at[b]
        BY <1>2 DEF Auth, Goto, TypeOK
      <3>3. ASSUME NEW b \in Auths, at'[b] \in {"start", "store", "close"}
            PROVE  todo'[b] = todo[b] /\ (at'[b] = at[b] \/ (at'[b] = "store" /\ todo[b] = Words))
        <4>1. CASE b = a
          BY <3>1, <3>2, <3>3, <4>1
        <4>2. CASE b # a
          BY <3>1, <3>2, <4>2
        <4> QED
          BY <4>1, <4>2
      <3> QED
        BY <3>3
    <2>2. UNCHANGED <<AuthedPublicKey, closed, late>>
      BY <1>2 DEF Auth
    <2> QED
      BY <2>1, <2>2 DEF KeysStay, Written, Whole
  <1>3. ASSUME NEW a \in Auths, NEW w \in Words, StoreWord(a, w) PROVE KeysStay'
    <2>1. \A b \in Auths : b # a => at'[b] = at[b] /\ todo'[b] = todo[b]
      BY <1>3 DEF StoreWord, Goto, TypeOK
    <2>2. at[a] = "store" /\ todo'[a] = todo[a] \ {w} /\ UNCHANGED <<closed, late>>
      BY <1>3 DEF StoreWord, TypeOK
    <2>3. at'[a] # "start" /\ (at'[a] = "close" => todo'[a] = {})
      BY <1>3, <2>2 DEF StoreWord, Goto, TypeOK
    <2>4. Whole(AuthedPublicKey) => Whole(AuthedPublicKey')
      <3>1. AuthedPublicKey' \in [Words -> Keys \cup {Blank, "full"}]
        BY <1>3 DEF StoreWord, TypeOK, Word
      <3> QED
        BY <1>3, <3>1, WordsStay, WholeIsWritten DEF TypeOK
    <2>5. \A b \in Auths : at'[b] \in {"store", "close"} =>
            \A v \in Words \ todo'[b] : Written(AuthedPublicKey', v)
      BY <1>3, <2>1, <2>2, WordsStay DEF KeysStay
    <2> QED
      BY <2>1, <2>2, <2>3, <2>4, <2>5 DEF KeysStay
  <1>4. ASSUME NEW a \in Auths, CloseAuthed(a) PROVE KeysStay'
    <2>1. Whole(AuthedPublicKey)
      BY <1>4, WholeIsWritten DEF CloseAuthed, KeysStay, TypeOK
    <2> QED
      BY <1>4, <2>1 DEF CloseAuthed, Goto, KeysStay, TypeOK, Written, Whole
  <1>5. CASE UNCHANGED vars
    BY <1>5 DEF vars, KeysStay, Written, Whole
  <1> QED
    BY <1>1, <1>2, <1>3, <1>4, <1>5 DEF Next

LEMMA ReadersAreSafeStep == TypeOK /\ KeysStay /\ ReadersAreSafe /\ [Next]_vars => ReadersAreSafe'
  <1> SUFFICES ASSUME TypeOK, KeysStay, ReadersAreSafe, [Next]_vars PROVE ReadersAreSafe'
    OBVIOUS
  <1>1. ASSUME NEW g \in Goroutines, RequestAuth(g) \/ SendChallenge(g) \/ Look(g)
        PROVE  ReadersAreSafe'
    <2>1. /\ UNCHANGED <<todo, seen, woken, late>>
          /\ at[g] \notin {"read", "done"}
          /\ \A h \in Goroutines : h # g => at'[h] = at[h]
      BY <1>1 DEF RequestAuth, SendChallenge, Look, Goto, TypeOK
    <2>2. g \notin late /\ todo[g] = Words
      BY <2>1 DEF ReadersAreSafe
    <2>3. \A h \in late' : h \in Goroutines /\ at'[h] = at[h] /\ todo'[h] = todo[h]
      BY <2>1, <2>2 DEF TypeOK
    <2>4. \A h \in Goroutines : at'[h] \notin {"read", "done"} => todo'[h] = Words
      BY <2>1, <2>2 DEF ReadersAreSafe
    <2> QED
      BY <2>1, <2>3, <2>4 DEF ReadersAreSafe, Written
  <1>2. ASSUME NEW g \in Goroutines, Wake(g) \/ GetAuthed(g) PROVE ReadersAreSafe'
    <2>1. /\ UNCHANGED <<todo, seen>>
          /\ at[g] \notin {"read", "done"} /\ at'[g] = "read"
          /\ \A h \in Goroutines : h # g => at'[h] = at[h]
          /\ late' \subseteq late \cup {g} /\ late \subseteq late'
      BY <1>2 DEF Wake, GetAuthed, Goto, TypeOK
    <2>2. woken' \subseteq late'
      BY <1>2 DEF Wake, GetAuthed, KeysStay, ReadersAreSafe
    <2>3. todo[g] = Words
      BY <2>1 DEF ReadersAreSafe
    <2>4. \A h \in late' : h \in Goroutines /\ at'[h] \in {"read", "done"}
      BY <2>1 DEF ReadersAreSafe, TypeOK
    <2>5. \A h \in late' : at'[h] = "done" => todo'[h] = {}
      BY <2>1 DEF ReadersAreSafe, TypeOK
    <2>6. \A h \in late' : \A v \in Words \ todo'[h] : Written(seen'[h], v)
      BY <2>1, <2>3 DEF ReadersAreSafe, Written
    <2>7. \A h \in Goroutines : at'[h] \notin {"read", "done"} => todo'[h] = Words
      BY <2>1 DEF ReadersAreSafe
    <2> QED
      BY <2>2, <2>4, <2>5, <2>6, <2>7 DEF ReadersAreSafe, Written
  <1>3. ASSUME NEW g \in Goroutines, NEW w \in Words, LoadWord(g, w) PROVE ReadersAreSafe'
    <2>1. /\ UNCHANGED <<woken, late, AuthedPublicKey>>
          /\ at[g] = "read" /\ at'[g] \in {"read", "done"} /\ todo'[g] = todo[g] \ {w}
          /\ seen'[g] = [seen[g] EXCEPT ![w] = AuthedPublicKey[w]]
          /\ \A h \in Goroutines : h # g => at'[h] = at[h] /\ todo'[h] = todo[h] /\ seen'[h] = seen[h]
      BY <1>3 DEF LoadWord, Goto, TypeOK
    <2>2. at'[g] = "done" => todo'[g] = {}
      BY <1>3, <2>1 DEF LoadWord, Goto, TypeOK
    <2>3. g \in late => Written(seen'[g], w)
      BY <2>1, WholeIsWritten DEF KeysStay, TypeOK, Written
    <2>4. \A v \in Words : v # w => (Written(seen'[g], v) <=> Written(seen[g], v))
      BY <2>1 DEF Written, TypeOK, Words
    <2>5. \A h \in late' : h \in Goroutines /\ (h # g => at'[h] = at[h] /\ todo'[h] = todo[h]
                                                     /\ seen'[h] = seen[h])
      BY <2>1 DEF TypeOK
    <2>6. \A h \in late' : \A v \in Words \ todo'[h] : Written(seen'[h], v)
      BY <2>1, <2>3, <2>4, <2>5 DEF ReadersAreSafe
    <2>7. \A h \in Goroutines : at'[h] \notin {"read", "done"} => todo'[h] = Words
      BY <2>1 DEF ReadersAreSafe
    <2>8. \A h \in late' : at'[h] \in {"read", "done"} /\ (at'[h] = "done" => todo'[h] = {})
      BY <2>1, <2>2, <2>5 DEF ReadersAreSafe
    <2> QED
      BY <2>1, <2>6, <2>7, <2>8 DEF ReadersAreSafe
  <1>4. ASSUME NEW a \in Auths, Auth(a) \/ CloseAuthed(a) \/ \E w \in Words : StoreWord(a, w)
        PROVE  ReadersAreSafe'
    <2>1. \A g \in Goroutines : at'[g] = at[g] /\ todo'[g] = todo[g]
      BY <1>4 DEF Auth, CloseAuthed, StoreWord, Goto, TypeOK
    <2>2. UNCHANGED <<seen, woken, late>>
      BY <1>4 DEF Auth, CloseAuthed, StoreWord
    <2> QED
      BY <2>1, <2>2 DEF ReadersAreSafe, TypeOK, Written
  <1>5. CASE UNCHANGED vars
    BY <1>5 DEF vars, ReadersAreSafe, Written
  <1> QED
    BY <1>1, <1>2, <1>3, <1>4, <1>5 DEF Next

-----------------------------------------------------------------------------
\* The inductive invariant holds in every reachable state (utils.go:17-25, handlers.go:328-341).
THEOREM NothingIsLost == Spec => []IInv
  <1>1. IInv /\ [Next]_vars => IInv'
    BY TypeStep, NoneLostStep, KeysStayStep, ReadersAreSafeStep DEF IInv
  <1> QED
    BY <1>1, InitIInv, PTL DEF Spec

\* The type invariant: the field never holds a closed channel (handlers.go:333-336).
THEOREM TypesHold == Spec => []TypeOK
  BY NothingIsLost, PTL DEF IInv

\* However many goroutines ask for authentication while others authenticate, a channel that someone
\* waits for is closed already or is the one the next AUTH closes (utils.go:19-23,
\* handlers.go:332-337).
THEOREM WaitersAreAlwaysWoken == Spec => []WaitersAreWoken
  <1>1. IInv => WaitersAreWoken
    BY DEF IInv, TypeOK, NoneLost, WaitersAreWoken, Nil
  <1> QED
    BY <1>1, NothingIsLost, PTL

\* Whoever was woken, or began to read when a key was there, reads a whole key, whatever other AUTH
\* messages write meanwhile (handlers.go:331-335, utils.go:35-43).
THEOREM KeysAreAlwaysWhole == Spec => []ReadKeysAreWhole
  <1>1. IInv => ReadKeysAreWhole
    <2> SUFFICES ASSUME IInv, NEW g \in woken \cup late, at[g] = "done" PROVE Whole(seen[g])
      BY DEF ReadKeysAreWhole
    <2>1. g \in late /\ g \in Goroutines /\ todo[g] = {}
      BY DEF IInv, ReadersAreSafe, TypeOK
    <2>2. \A w \in Words : Written(seen[g], w)
      BY <2>1 DEF IInv, ReadersAreSafe
    <2> QED
      BY <2>1, <2>2, WholeIsWritten DEF IInv, TypeOK
  <1> QED
    BY <1>1, NothingIsLost, PTL
=============================================================================

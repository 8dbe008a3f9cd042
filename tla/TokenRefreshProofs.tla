------------------------- MODULE TokenRefreshProofs -------------------------
(***************************************************************************)
(* Proof about the sweep that renews tokens.  A connection that nothing    *)
(* spoiled is held by one sweep at most, which holds the token the row     *)
(* has; so what the platform gave for it is what comes to be stored.       *)
(***************************************************************************)
EXTENDS TokenRefresh, FiniteSetTheorems, WellFoundedInduction, NaturalsInduction, TLAPS

\* REFRESH_WINDOW, BATCH, MAX_JITTER_SECONDS and a token's life are numbers, and there
\* are finitely many connections
Configured ==
    /\ IsFiniteSet(Channels) /\ Batch \in Nat \ {0}
    /\ {Life, Jitter} \subseteq Nat

RowTyped(r) == DOMAIN r = {"status", "token", "expires"} /\ r.expires \in Nat
SweepTyped(x) ==
    /\ DOMAIN x = {"pc", "now", "read", "got"} /\ DOMAIN x.got = {"outcome", "token", "expires"}
    /\ x.now \in Nat /\ x.got.expires \in Nat
    /\ DOMAIN x.read \subseteq Channels
    /\ \A c \in DOMAIN x.read : RowTyped(x.read[c])
    /\ x.pc \in {"call", "save"} => DOMAIN x.read # {}
    /\ x.pc = "off" => x = Off
    /\ x.pc \in {"off", "call", "save"}
    /\ x.pc = "call" => x.got = NoAnswer

Typed ==
    /\ clock \in Nat
    /\ DOMAIN row = Channels /\ \A c \in Channels : RowTyped(row[c])
    /\ DOMAIN valid = Channels
    /\ DOMAIN sweep = Sweeps /\ \A s \in Sweeps : SweepTyped(sweep[s])

\* the answer a sweep is about to save for c
Saving(s, c) == sweep[s].pc = "save" /\ sweep[s].got.outcome = "refreshed" /\ At(s) = c

\* what is known of a connection that no crash, lost answer or second writer touched
Sound(c) ==
    /\ \A s, t \in Sweeps : c \in DOMAIN sweep[s].read /\ c \in DOMAIN sweep[t].read => s = t
    /\ \A s \in Sweeps : c \in DOMAIN sweep[s].read => sweep[s].read[c].token = row[c].token
    /\ valid[c] = {} \/ row[c].token \in valid[c] \/ \E s \in Sweeps : Saving(s, c)
    /\ \A s \in Sweeps : Saving(s, c) => valid[c] = {} \/ sweep[s].got.token \in valid[c]

TokensInv == Typed /\ \A c \in Channels \ spoiled : Sound(c)

LEMMA LeastNat ==
    ASSUME NEW T \in SUBSET Nat, T # {}
    PROVE  \E x \in T : \A y \in T : x <= y
<1> DEFINE R == {ss \in Nat \X Nat : ss[1] < ss[2]}
<1>1. IsWellFoundedOn(R, Nat)
  BY NatLessThanWellFounded DEF OpToRel
<1>2. PICK x \in T : \A y \in T : <<y, x>> \notin R
  BY <1>1, WFMin
<1>3. \A y \in T : ~(y < x)
  BY <1>2
<1> QED
  BY <1>3

\* the connection a sweep deals with is one it holds
LEMMA AtHeld ==
    ASSUME Typed, NEW s \in Sweeps, sweep[s].pc \in {"call", "save"}
    PROVE  At(s) \in DOMAIN sweep[s].read /\ At(s) \in Channels
<1> DEFINE rows == sweep[s].read
           T == {rows[c].expires : c \in DOMAIN rows}
<1>1. /\ DOMAIN rows # {} /\ DOMAIN rows \subseteq Channels
      /\ \A c \in DOMAIN rows : rows[c].expires \in Nat
  BY DEF Typed, SweepTyped, RowTyped
<1>2. T \in SUBSET Nat /\ T # {}
  BY <1>1
<1>3. PICK x \in T : \A y \in T : x <= y
  BY <1>2, LeastNat
<1>4. \E c \in DOMAIN rows : \A d \in DOMAIN rows : rows[c].expires <= rows[d].expires
  BY <1>3
<1> QED
  BY <1>1, <1>4 DEF At

\* with nothing else changed in a sweep it deals with the same connection
LEMMA SameAt ==
    ASSUME NEW s, sweep'[s].read = sweep[s].read PROVE At(s)' = At(s)
BY DEF At

LEMMA TokensInit ==
    ASSUME Configured PROVE Init => TokensInv
<1> SUFFICES ASSUME Init PROVE TokensInv
  OBVIOUS
<1>1. \A s \in Sweeps : /\ sweep[s] = Off /\ sweep[s].pc = "off" /\ sweep[s].read = <<>>
                        /\ DOMAIN sweep[s].read = {}
  BY DEF Init, Off
<1>2. SweepTyped(Off)
  BY DEF SweepTyped, Off, NoAnswer
<1>3. \A c \in Channels : RowTyped(row[c]) /\ valid[c] = {row[c].token}
  BY DEF Init, RowTyped
<1>4. Typed
  BY <1>1, <1>2, <1>3 DEF Init, Typed
<1> QED
  BY <1>1, <1>3, <1>4 DEF TokensInv, Sound, Saving

\* a connection keeps what is known of it while its row, its tokens and the sweeps that
\* hold it stay as they are
LEMMA SoundKept ==
    ASSUME NEW c \in Channels, Sound(c), valid'[c] = valid[c], row'[c].token = row[c].token,
           \A s \in Sweeps : c \in DOMAIN sweep'[s].read =>
               c \in DOMAIN sweep[s].read /\ sweep'[s].read[c] = sweep[s].read[c],
           \A s \in Sweeps : Saving(s, c)' <=> Saving(s, c),
           \A s \in Sweeps : Saving(s, c) => sweep'[s].got.token = sweep[s].got.token
    PROVE  Sound(c)'
BY DEF Sound

LEMMA SavingHolds ==
    ASSUME Typed, NEW s \in Sweeps, NEW c, Saving(s, c)
    PROVE  c \in DOMAIN sweep[s].read
BY AtHeld DEF Saving

LEMMA FireStep ==
    ASSUME Configured, TokensInv, NEW s \in Sweeps, Fire(s)
    PROVE  TokensInv'
<1>1. PICK B \in Batches :
        /\ sweep' = [sweep EXCEPT ![s] =
              [Off EXCEPT !.pc = "call", !.now = clock, !.read = [c \in B |-> row[c]]]]
        /\ spoiled' = spoiled \cup (B \cap Held)
  BY DEF Fire
<1>2. sweep[s] = Off /\ Due # {} /\ UNCHANGED <<row, valid, clock>>
  BY DEF Fire, Idle
<1>3. B \subseteq Channels /\ B # {}
  <2>1. B \subseteq Due /\ Due \subseteq Channels
    BY DEF Batches, Due
  <2>2. IsFiniteSet(Due) /\ Cardinality(Due) \in Nat /\ Cardinality(Due) # 0
    BY <1>2, <2>1, FS_Subset, FS_EmptySet, FS_CardinalityType DEF Configured
  <2>3. Cardinality(B) = IF Cardinality(Due) < Batch THEN Cardinality(Due) ELSE Batch
    BY DEF Batches
  <2>4. Cardinality(B) # 0
    BY <2>2, <2>3 DEF Configured
  <2> QED
    BY <2>1, <2>4, FS_EmptySet
<1> DEFINE x == [Off EXCEPT !.pc = "call", !.now = clock, !.read = [c \in B |-> row[c]]]
<1>4. /\ DOMAIN x = {"pc", "now", "read", "got"} /\ x.pc = "call" /\ x.now = clock
      /\ x.got = NoAnswer /\ x.read = [c \in B |-> row[c]]
  BY DEF Off
<1> HIDE DEF x
<1>5. \A t \in Sweeps : sweep'[t] = IF t = s THEN x ELSE sweep[t]
  BY <1>1 DEF TokensInv, Typed, x
<1>6. SweepTyped(x)
  BY <1>3, <1>4 DEF TokensInv, Typed, SweepTyped, NoAnswer
<1>7. Typed'
  BY <1>1, <1>2, <1>5, <1>6 DEF TokensInv, Typed
<1>8. DOMAIN sweep[s].read = {} /\ sweep[s].pc = "off"
  BY <1>2 DEF Off
<1>9. \A t \in Sweeps, c \in Channels : Saving(t, c)' <=> Saving(t, c)
  BY <1>4, <1>5, <1>8, SameAt DEF Saving
<1>10. ASSUME NEW c \in Channels \ spoiled' PROVE Sound(c)'
  <2>1. Sound(c) /\ c \notin B \cap Held
    BY <1>1 DEF TokensInv
  <2>2. \A t \in Sweeps : Saving(t, c) => sweep'[t].got.token = sweep[t].got.token
    BY <1>5, <1>8 DEF Saving
  <2>3. CASE c \notin B
    <3>1. \A t \in Sweeps : c \in DOMAIN sweep'[t].read =>
               c \in DOMAIN sweep[t].read /\ sweep'[t].read[c] = sweep[t].read[c]
      BY <1>4, <1>5, <2>3
    <3> QED
      BY <1>2, <1>9, <2>1, <2>2, <3>1, SoundKept
  <2>4. CASE c \in B
    <3>1. \A t \in Sweeps : c \notin DOMAIN sweep[t].read
      BY <2>1, <2>4 DEF Held
    <3>2. \A t \in Sweeps : c \in DOMAIN sweep'[t].read => t = s
      BY <1>5, <3>1
    <3>3. sweep'[s].read[c].token = row'[c].token
      BY <1>2, <1>4, <1>5, <2>4
    <3> QED
      BY <1>2, <1>9, <2>1, <2>2, <3>2, <3>3 DEF Sound
  <2> QED
    BY <2>3, <2>4
<1> QED
  BY <1>7, <1>10 DEF TokensInv

LEMMA CallStep ==
    ASSUME Configured, TokensInv, NEW s \in Sweeps, Call(s)
    PROVE  TokensInv'
<1>0. PICK c0 : c0 = At(s)
  OBVIOUS
<1> DEFINE old == sweep[s].read[c0].token
           new == [old EXCEPT !.gen = @ + 1]
           Replaced == [valid EXCEPT ![c0] = (@ \ {old}) \cup {new}]
<1>1. sweep[s].pc = "call" /\ UNCHANGED <<row, clock>>
  BY DEF Call
<1>2. PICK outcome, token :
        /\ Got(s, outcome, token)
        /\ \/ outcome # "refreshed" /\ UNCHANGED <<valid, spoiled>>
           \/ outcome = "refreshed" /\ token = new /\ valid' = Replaced /\ UNCHANGED spoiled
           \/ outcome = "refreshed" /\ token = old /\ old \in valid[c0] /\ UNCHANGED <<valid, spoiled>>
           \/ outcome # "refreshed" /\ valid' = Replaced /\ spoiled' = spoiled \cup {c0}
  <2>1. \/ \E o \in {"unsupported", "revoked", "failed", "undecryptable"} :
              Got(s, o, old) /\ UNCHANGED <<valid, spoiled>>
        \/ Got(s, "refreshed", new) /\ valid' = Replaced /\ UNCHANGED spoiled
        \/ Got(s, "refreshed", old) /\ old \in valid[c0] /\ UNCHANGED <<valid, spoiled>>
        \/ Got(s, "failed", old) /\ valid' = Replaced /\ spoiled' = spoiled \cup {c0}
    BY <1>0 DEF Call, Rotated
  <2> HIDE DEF old, new, Replaced
  <2> QED
    BY <2>1
<1>3. PICK e : /\ e \in Nat
               /\ sweep' = [sweep EXCEPT ![s].pc = "save",
                              ![s].got = [outcome |-> outcome, token |-> token, expires |-> e]]
  <2>1. PICK j \in 0..Jitter :
          sweep' = [sweep EXCEPT ![s].pc = "save",
             ![s].got = [outcome |-> outcome, token |-> token,
                         expires |-> IF Life > j THEN sweep[s].now + Life - j ELSE sweep[s].now + 1]]
    BY <1>2 DEF Got
  <2>2. (IF Life > j THEN sweep[s].now + Life - j ELSE sweep[s].now + 1) \in Nat
    BY DEF Configured, TokensInv, Typed, SweepTyped
  <2> QED
    BY <2>1, <2>2
<1>4. c0 \in DOMAIN sweep[s].read /\ c0 \in Channels
  BY <1>0, <1>1, AtHeld DEF TokensInv
<1>5. SweepTyped(sweep[s]) /\ DOMAIN sweep = Sweeps
  BY DEF TokensInv, Typed
<1> DEFINE x == sweep'[s]
<1>6. /\ \A t \in Sweeps : t # s => sweep'[t] = sweep[t]
      /\ DOMAIN x = {"pc", "now", "read", "got"} /\ x.pc = "save" /\ x.now = sweep[s].now
      /\ x.read = sweep[s].read /\ x.got = [outcome |-> outcome, token |-> token, expires |-> e]
      /\ DOMAIN sweep' = Sweeps
  BY <1>3, <1>5 DEF SweepTyped
<1>7. SweepTyped(x)
  BY <1>1, <1>3, <1>5, <1>6 DEF SweepTyped
<1>8. DOMAIN valid' = Channels /\ \A c \in Channels : c # c0 => valid'[c] = valid[c]
  BY <1>2 DEF TokensInv, Typed
<1>9. Typed'
  BY <1>1, <1>6, <1>7, <1>8 DEF TokensInv, Typed
<1>10. \A t \in Sweeps : At(t)' = At(t)
  BY <1>6, SameAt
<1> HIDE DEF x, old, new, Replaced
<1>11. \A t \in Sweeps : sweep'[t].read = sweep[t].read
  BY <1>6 DEF x
<1>12. \A t \in Sweeps : t # s => \A c \in Channels : Saving(t, c)' <=> Saving(t, c)
  BY <1>6, <1>10 DEF Saving
<1>13. ASSUME NEW c \in Channels \ spoiled', c # c0 PROVE Sound(c)'
  <2>1. Sound(c)
    BY <1>2 DEF TokensInv
  <2>2. ~Saving(s, c) /\ ~Saving(s, c)'
    BY <1>0, <1>1, <1>10, <1>13 DEF Saving
  <2>3. \A t \in Sweeps : Saving(t, c)' <=> Saving(t, c)
    BY <1>12, <2>2
  <2>4. \A t \in Sweeps : Saving(t, c) => sweep'[t].got.token = sweep[t].got.token
    BY <1>6, <2>2
  <2> QED
    BY <1>1, <1>8, <1>11, <1>13, <2>1, <2>3, <2>4, SoundKept
<1>14. ASSUME c0 \notin spoiled' PROVE Sound(c0)'
  <2>1. Sound(c0)
    BY <1>2, <1>4, <1>14 DEF TokensInv
  <2>2. old = row[c0].token
    BY <1>4, <2>1 DEF Sound, old
  <2>3. ~Saving(s, c0) /\ \A t \in Sweeps : Saving(t, c0) => t = s
    BY <1>1, <1>4, <2>1, SavingHolds DEF Sound, Saving, TokensInv
  <2>4. valid[c0] = {} \/ old \in valid[c0]
    BY <2>1, <2>2, <2>3 DEF Sound
  <2>5. \A t \in Sweeps : Saving(t, c0)' => t = s
    BY <1>4, <1>12, <2>3
  <2>6. Saving(s, c0)' <=> outcome = "refreshed"
    BY <1>0, <1>6, <1>10 DEF Saving, x
  <2>7. sweep'[s].got.token = token
    BY <1>6 DEF x
  <2>8. CASE outcome # "refreshed"
    <3>1. UNCHANGED valid
      BY <1>2, <1>14, <2>8
    <3> QED
      BY <1>1, <1>11, <2>1, <2>2, <2>4, <2>5, <2>6, <2>8, <3>1 DEF Sound
  <2>9. CASE outcome = "refreshed"
    <3>1. token \in valid'[c0]
      BY <1>2, <1>4, <2>9 DEF Replaced, TokensInv, Typed
    <3> QED
      BY <1>1, <1>11, <2>1, <2>5, <2>6, <2>7, <2>9, <3>1 DEF Sound
  <2> QED
    BY <2>8, <2>9
<1> QED
  BY <1>9, <1>13, <1>14 DEF TokensInv

LEMMA SaveStep ==
    ASSUME TokensInv, NEW s \in Sweeps, Save(s)
    PROVE  TokensInv'
<1>0. PICK c0 : c0 = At(s)
  OBVIOUS
<1> DEFINE rest == DOMAIN sweep[s].read \ {c0}
           ok == sweep[s].got.outcome = "refreshed"
           x == IF rest = {} THEN Off
                ELSE [sweep[s] EXCEPT !.pc = "call", !.got = NoAnswer,
                                      !.read = [d \in rest |-> sweep[s].read[d]]]
           r == [status |-> Status(s),
                 token |-> IF ok THEN sweep[s].got.token ELSE row[c0].token,
                 expires |-> IF ok THEN sweep[s].got.expires ELSE row[c0].expires]
<1>1. /\ sweep[s].pc = "save" /\ UNCHANGED <<valid, clock, spoiled>>
      /\ row' = [row EXCEPT ![c0] = r] /\ sweep' = [sweep EXCEPT ![s] = x]
  BY <1>0 DEF Save
<1>2. c0 \in DOMAIN sweep[s].read /\ c0 \in Channels
  BY <1>0, <1>1, AtHeld DEF TokensInv
<1>3. SweepTyped(sweep[s]) /\ RowTyped(row[c0])
  BY <1>2 DEF TokensInv, Typed
<1>4. /\ DOMAIN r = {"status", "token", "expires"}
      /\ r.token = IF ok THEN sweep[s].got.token ELSE row[c0].token
      /\ r.expires \in Nat
  BY <1>3 DEF SweepTyped, RowTyped
<1>5. /\ SweepTyped(x) /\ x.pc # "save"
      /\ \A d \in DOMAIN x.read : d \in rest /\ x.read[d] = sweep[s].read[d]
  <2>1. CASE rest = {}
    <3>1. x = Off /\ DOMAIN Off.read = {} /\ Off.pc = "off"
      BY <2>1 DEF Off
    <3> HIDE DEF x
    <3> QED
      BY <3>1 DEF SweepTyped, Off, NoAnswer
  <2>2. CASE rest # {}
    <3>1. /\ DOMAIN x = {"pc", "now", "read", "got"} /\ x.pc = "call" /\ x.got = NoAnswer
          /\ x.now = sweep[s].now /\ x.read = [d \in rest |-> sweep[s].read[d]]
      BY <1>3, <2>2 DEF SweepTyped
    <3> HIDE DEF x
    <3> QED
      BY <1>3, <2>2, <3>1 DEF SweepTyped, NoAnswer
  <2> QED
    BY <2>1, <2>2
<1> HIDE DEF r, x
<1>6. \A t \in Sweeps : sweep'[t] = IF t = s THEN x ELSE sweep[t]
  BY <1>1 DEF TokensInv, Typed
<1>7. \A c \in Channels : row'[c] = IF c = c0 THEN r ELSE row[c]
  BY <1>1 DEF TokensInv, Typed
<1>8. Typed'
  BY <1>1, <1>4, <1>5, <1>6, <1>7 DEF TokensInv, Typed, RowTyped
<1>9. \A t \in Sweeps, c \in Channels : Saving(t, c)' <=> t # s /\ Saving(t, c)
  BY <1>5, <1>6, SameAt DEF Saving
<1>10. ASSUME NEW c \in Channels \ spoiled, c # c0 PROVE Sound(c)'
  <2>1. Sound(c) /\ ~Saving(s, c)
    BY <1>0, <1>10 DEF TokensInv, Saving
  <2>2. \A t \in Sweeps : c \in DOMAIN sweep'[t].read =>
               c \in DOMAIN sweep[t].read /\ sweep'[t].read[c] = sweep[t].read[c]
    BY <1>5, <1>6
  <2>3. \A t \in Sweeps : Saving(t, c)' <=> Saving(t, c)
    BY <1>9, <2>1
  <2>4. \A t \in Sweeps : Saving(t, c) => sweep'[t].got.token = sweep[t].got.token
    BY <1>6, <2>1
  <2> QED
    BY <1>1, <1>7, <1>10, <2>1, <2>2, <2>3, <2>4, SoundKept
<1>11. ASSUME c0 \notin spoiled PROVE Sound(c0)'
  <2>1. Sound(c0)
    BY <1>2, <1>11 DEF TokensInv
  <2>2. \A t \in Sweeps : c0 \in DOMAIN sweep[t].read => t = s
    BY <1>2, <2>1 DEF Sound
  <2>3. \A t \in Sweeps : c0 \notin DOMAIN sweep'[t].read
    BY <1>5, <1>6, <2>2
  <2>4. \A t \in Sweeps : Saving(t, c0) => t = s
    BY <2>2, SavingHolds DEF TokensInv
  <2>5. Saving(s, c0) <=> ok
    BY <1>0, <1>1 DEF Saving
  <2>6. valid[c0] = {} \/ r.token \in valid[c0]
    BY <1>4, <2>1, <2>4, <2>5 DEF Sound
  <2>7. \A t \in Sweeps : ~Saving(t, c0)'
    BY <1>2, <1>9, <2>4
  <2> QED
    BY <1>1, <1>2, <1>7, <2>3, <2>6, <2>7 DEF Sound
<1> QED
  BY <1>1, <1>8, <1>10, <1>11 DEF TokensInv

LEMMA DieStep ==
    ASSUME TokensInv, NEW s \in Sweeps, Die(s)
    PROVE  TokensInv'
<1>1. /\ spoiled' = IF sweep[s].got.outcome = "refreshed" THEN spoiled \cup {At(s)} ELSE spoiled
      /\ sweep' = [sweep EXCEPT ![s] = Off] /\ UNCHANGED <<row, valid, clock>>
  BY DEF Die
<1>2. \A t \in Sweeps : sweep'[t] = IF t = s THEN Off ELSE sweep[t]
  BY <1>1 DEF TokensInv, Typed
<1>3. Off.pc = "off" /\ DOMAIN Off.read = {} /\ SweepTyped(Off)
  BY DEF Off, SweepTyped, NoAnswer
<1>4. Typed'
  BY <1>1, <1>2, <1>3 DEF TokensInv, Typed
<1>5. ASSUME NEW c \in Channels \ spoiled' PROVE Sound(c)'
  <2>1. Sound(c) /\ ~Saving(s, c)
    BY <1>1 DEF TokensInv, Saving
  <2>2. \A t \in Sweeps : c \in DOMAIN sweep'[t].read =>
               c \in DOMAIN sweep[t].read /\ sweep'[t].read[c] = sweep[t].read[c]
    BY <1>2, <1>3
  <2>3. \A t \in Sweeps : Saving(t, c)' <=> Saving(t, c)
    BY <1>2, <1>3, <2>1, SameAt DEF Saving
  <2>4. \A t \in Sweeps : Saving(t, c) => sweep'[t].got.token = sweep[t].got.token
    BY <1>2, <2>1
  <2> QED
    BY <1>1, <2>1, <2>2, <2>3, <2>4, SoundKept
<1> QED
  BY <1>4, <1>5 DEF TokensInv

\* people and the publish task: only a connection no sweep holds gets a new token
LEMMA OutsideSteps ==
    ASSUME Configured, TokensInv, NEW c0 \in Channels,
           Reconnect(c0) \/ Withdraw(c0) \/ Blame(c0) \/ Publishes(c0)
    PROVE  TokensInv'
<1>1. UNCHANGED <<sweep, clock>> /\ \A t \in Sweeps : At(t)' = At(t)
  BY SameAt DEF Reconnect, Withdraw, Blame, Publishes
<1>2. \A t \in Sweeps, c \in Channels : Saving(t, c)' <=> Saving(t, c)
  BY <1>1 DEF Saving
<1>3. ASSUME spoiled \subseteq spoiled', NEW c \in Channels \ spoiled',
             valid'[c] = valid[c], row'[c].token = row[c].token
      PROVE  Sound(c)'
  <2>1. Sound(c)
    BY <1>3 DEF TokensInv
  <2> QED
    BY <1>1, <1>2, <1>3, <2>1, SoundKept
<1>4. CASE Reconnect(c0)
  <2>1. PICK new :
          /\ row' = [row EXCEPT ![c0] = [status |-> "ACTIVE", token |-> new, expires |-> clock + Life]]
          /\ valid' = [valid EXCEPT ![c0] = @ \cup {new}]
          /\ spoiled' = spoiled \cup ({c0} \cap Held)
    BY <1>4 DEF Reconnect
  <2>2. Typed'
    BY <1>1, <2>1 DEF TokensInv, Typed, RowTyped, Configured
  <2>3. ASSUME NEW c \in Channels \ spoiled', c # c0 PROVE Sound(c)'
    BY <1>3, <2>1, <2>3 DEF TokensInv, Typed
  <2>4. ASSUME c0 \notin spoiled' PROVE Sound(c0)'
    <3>1. Sound(c0) /\ \A t \in Sweeps : c0 \notin DOMAIN sweep[t].read
      BY <2>1, <2>4 DEF TokensInv, Held
    <3>2. \A t \in Sweeps : ~Saving(t, c0)
      BY <3>1, SavingHolds DEF TokensInv
    <3>3. row'[c0].token \in valid'[c0]
      BY <2>1 DEF TokensInv, Typed
    <3> QED
      BY <1>1, <1>2, <3>1, <3>2, <3>3 DEF Sound
  <2> QED
    BY <2>2, <2>3, <2>4 DEF TokensInv
<1>5. CASE Withdraw(c0)
  <2>1. valid' = [valid EXCEPT ![c0] = {}] /\ UNCHANGED <<row, spoiled>>
    BY <1>5 DEF Withdraw
  <2>2. Typed'
    BY <1>1, <2>1 DEF TokensInv, Typed
  <2>3. ASSUME NEW c \in Channels \ spoiled', c # c0 PROVE Sound(c)'
    BY <1>3, <2>1, <2>3 DEF TokensInv, Typed
  <2>4. ASSUME c0 \notin spoiled' PROVE Sound(c0)'
    <3>1. Sound(c0) /\ valid'[c0] = {}
      BY <2>1, <2>4 DEF TokensInv, Typed
    <3> QED
      BY <1>1, <2>1, <3>1 DEF Sound
  <2> QED
    BY <2>2, <2>3, <2>4 DEF TokensInv
<1>6. CASE Blame(c0) \/ Publishes(c0)
  <2>1. PICK status : row' = [row EXCEPT ![c0].status = status]
    BY <1>6 DEF Blame, Publishes
  <2>2. UNCHANGED <<valid, spoiled>>
    BY <1>6 DEF Blame, Publishes
  <2>3. \A c \in Channels : RowTyped(row'[c]) /\ row'[c].token = row[c].token
    BY <2>1 DEF TokensInv, Typed, RowTyped
  <2>4. Typed'
    BY <1>1, <2>1, <2>2, <2>3 DEF TokensInv, Typed
  <2> QED
    BY <1>3, <2>2, <2>3, <2>4 DEF TokensInv
<1> QED
  BY <1>4, <1>5, <1>6

LEMMA TokensStep ==
    ASSUME Configured, TokensInv, [Next]_vars PROVE TokensInv'
<1>1. ASSUME UNCHANGED <<row, valid, sweep, spoiled>>, clock' \in Nat PROVE TokensInv'
  <2>1. Typed'
    BY <1>1 DEF TokensInv, Typed
  <2>2. \A s \in Sweeps : At(s)' = At(s)
    BY <1>1, SameAt
  <2>3. \A s \in Sweeps, c \in Channels : Saving(s, c)' <=> Saving(s, c)
    BY <1>1, <2>2 DEF Saving
  <2>4. \A c \in Channels \ spoiled' : Sound(c)'
    BY <1>1, <2>3, SoundKept DEF TokensInv
  <2> QED
    BY <2>1, <2>4 DEF TokensInv
<1>2. CASE UNCHANGED vars
  BY <1>1, <1>2 DEF vars, TokensInv, Typed
<1>3. CASE Tick
  <2>1. clock' \in Nat /\ UNCHANGED <<row, valid, sweep, spoiled>>
    BY <1>3 DEF Tick, TokensInv, Typed
  <2> QED
    BY <1>1, <2>1
<1> QED
  BY <1>2, <1>3, FireStep, CallStep, SaveStep, DieStep, OutsideSteps DEF Next

\* While a platform takes any token of a connection, the stored one is taken: _save keeps
\* what was rotated, and a connection it may lose is one that a crash, a lost answer or a
\* second writer hit between the call and the write.
THEOREM TokensStayTaken ==
    ASSUME Configured PROVE Spec => []StoredTokenIsTaken
<1>1. TokensInv => StoredTokenIsTaken
  BY DEF TokensInv, Sound, Saving, StoredTokenIsTaken
<1>2. Init => TokensInv
  BY TokensInit
<1>3. TokensInv /\ [Next]_vars => TokensInv'
  BY TokensStep
<1> QED
  BY <1>1, <1>2, <1>3, PTL DEF Spec

=============================================================================

-------------------------------- MODULE Mail --------------------------------
(***************************************************************************)
(* email.service.ts: what one call of send or sendOrThrow does with a      *)
(* letter.  The callers are the reset link, which must know of a failure,  *)
(* and the notices and receipts, which only log one.  Resend is external:  *)
(* one comment of deliver says that it "deduplicates nothing" and the next *)
(* that it honours the key, so it does either.                             *)
(***************************************************************************)
EXTENDS Integers

CONSTANTS
    Letters,    \* calls of deliver, several of them at work at the same time
    Templates,
    Addresses,
    MaxHour     \* bound: the clock

VARIABLES
    hour,       \* of the clock the key is made from
    honours,    \* Resend: whether a key it has answered delivers nothing more
    letter,     \* per call: its key, the tries left, what its caller was told, copies delivered
    taken       \* Resend: the keys it has answered

vars == <<hour, honours, letter, taken>>

Unwritten == [told |-> "unwritten", key |-> <<>>, tries |-> 0, copies |-> 0]

Init ==
    /\ hour = 0 /\ honours \in BOOLEAN
    /\ letter = [l \in Letters |-> Unwritten]
    /\ taken = {}

Sending(l) == letter[l].told = "nothing"
KeyPerTry(l) == [letter[l].key EXCEPT ![3] = hour]
Key(l) == letter[l].key

\* a reset link, a changed password, a new address, a receipt; one retry
Send(l, template, to) ==
    /\ letter[l] = Unwritten
    /\ letter' = [letter EXCEPT ![l] = [told |-> "nothing", key |-> <<template, to, hour>>,
                                        tries |-> 2, copies |-> 0]]
    /\ UNCHANGED <<hour, honours, taken>>

\* no answer, or a 5xx: one more try, or the failure is told
Unanswered(l) ==
    IF letter[l].tries > 1 THEN [letter[l] EXCEPT !.tries = 1]
    ELSE [letter[l] EXCEPT !.told = "failed"]

Copy(l) == IF honours /\ Key(l) \in taken THEN 0 ELSE 1

\* the request lands; the answer may be lost
Land(l, answered) ==
    /\ Sending(l)
    /\ LET after == IF answered THEN [letter[l] EXCEPT !.told = "sent"] ELSE Unanswered(l) IN
       letter' = [letter EXCEPT ![l] = [after EXCEPT !.copies = @ + Copy(l)]]
    /\ taken' = taken \cup {Key(l)}
    /\ UNCHANGED <<hour, honours>>

\* the request never arrives
Miss(l) ==
    /\ Sending(l)
    /\ letter' = [letter EXCEPT ![l] = Unanswered(l)]
    /\ UNCHANGED <<hour, honours, taken>>

\* a 4xx, or an open breaker, is not tried again
Refuse(l) ==
    /\ Sending(l)
    /\ letter' = [letter EXCEPT ![l].told = "failed"]
    /\ UNCHANGED <<hour, honours, taken>>

\* the process dies
Crash(l) ==
    /\ Sending(l)
    /\ letter' = [letter EXCEPT ![l].told = "lost"]
    /\ UNCHANGED <<hour, honours, taken>>

Tick == hour < MaxHour /\ hour' = hour + 1 /\ UNCHANGED <<honours, letter, taken>>

Next ==
    \/ Tick
    \/ \E l \in Letters :
          \/ \E k \in Templates, o \in Addresses : Send(l, k, o)
          \/ \E b \in BOOLEAN : Land(l, b)
          \/ Miss(l) \/ Refuse(l) \/ Crash(l)

Spec == Init /\ [][Next]_vars

-----------------------------------------------------------------------------
Arrived(key) == \E l \in Letters : letter[l].key = key /\ letter[l].copies > 0

\* What is told to have been sent has arrived, from this call or from one with its key,
\* and however a try ends a letter arrives at most once when Resend honours the key, and at
\* most twice when it does not (deliver's one retry and its key).
LettersArriveAsTold ==
    \A l \in Letters :
        /\ letter[l].copies <= IF honours THEN 1 ELSE 2
        /\ letter[l].told = "sent" => Arrived(letter[l].key)

=============================================================================

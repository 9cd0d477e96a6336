-------------------------- MODULE DeliveryPromise ---------------------------
(***************************************************************************)
(* What the outbox promises of the messages that are put into it, whoever  *)
(* sends them and whatever fails: none is lost, none changes its channel,  *)
(* none is tried once it has been sent or given up, and none is tried more *)
(* than Tries times.                                                       *)
(***************************************************************************)
EXTENDS Naturals, Sequences

CONSTANTS Channels, Tries

VARIABLE letters   \* oldest first: the channel, how often it was tried, what became of it

Posted(c) == [channel |-> c, tries |-> 0, fate |-> "open"]

Tried(letter, fate) == [channel |-> letter.channel, tries |-> letter.tries + 1, fate |-> fate]

\* What a letter can be a step later: as it was, or tried once more.
Next(letter) ==
    {letter} \cup
    IF letter.fate = "open" /\ letter.tries < Tries
    THEN {Tried(letter, fate) : fate \in {"open", "sent", "given_up"}}
    ELSE {}

PromiseInit == letters = <<>>

\* Old letters first, each at most one try further; new letters after them.
PromiseNext ==
    /\ Len(letters) <= Len(letters')
    /\ \A i \in 1 .. Len(letters) : letters'[i] \in Next(letters[i])
    /\ \A i \in Len(letters) + 1 .. Len(letters') : \E c \in Channels : letters'[i] = Posted(c)

PromiseSpec == PromiseInit /\ [][PromiseNext]_letters
=============================================================================

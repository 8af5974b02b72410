---------------------------- MODULE SetupScreens ----------------------------
(***************************************************************************)
(* How setup and install-mcp ask for a choice: on a terminal with a screen *)
(* (src/internal/setupui), else with a line of names and numbers           *)
(* (src/pkg/selection).                                                    *)
(***************************************************************************)
EXTENDS SequencesExt, Naturals

CONSTANTS
    Offers, \* what is offered, in order
    Words,   \* what may be typed or saved: choices, and names not offered
    NumberOf \* word -> the number it reads as, or 0

ConstantsOK ==
    /\ Offers \in Seq(Words) /\ IsInjective(Offers)
    /\ NumberOf \in [Words -> Nat]

VARIABLE screen

NoScreen == [at |-> "none"]

Init == screen = NoScreen

(* The saved choice is where the cursor starts. *)
SelectOne(choices, current) ==
    screen' = [at |-> "open", kind |-> "one", choices |-> choices,
               cursor |-> IF current \in Range(choices)
                          THEN CHOOSE i \in 1..Len(choices) :
                                   choices[i] = current
                          ELSE 1,
               marked |-> {}]

(* Tools start with all marked when none was saved; only the screen of    *)
(* clients may be left with none (SelectManyAllowEmpty).                   *)
selectMany(kind, choices, current) ==
    screen' = [at |-> "open", kind |-> kind, choices |-> choices, cursor |-> 1,
               marked |-> IF kind = "tools" /\ current = {}
                          THEN Range(choices) ELSE current]

open ==
    /\ screen.at # "open"
    /\ \E n \in 0..Len(Offers) :
           LET choices == SubSeq(Offers, 1, n)
           IN  \/ \E current \in Words : SelectOne(choices, current)
               \/ \E kind \in {"tools", "clients"}, current \in SUBSET Words :
                      selectMany(kind, choices, current)

Close(kind, offers, result) ==
    screen' = [at |-> "closed", kind |-> kind, offers |-> offers,
               result |-> result]

(* Mutant: what is marked is handed on as it was saved. *)
selectionSaved == SetToSeq(screen.marked)

(* What is marked, in the order of the choices. *)
selection ==
    LET choices == screen.choices
        kept[i \in 0..Len(choices)] ==
            IF i = 0 THEN <<>>
            ELSE IF choices[i] \in screen.marked
                 THEN Append(kept[i - 1], choices[i]) ELSE kept[i - 1]
    IN  kept[Len(choices)]

key(k) ==
    LET at == screen.cursor
        name == screen.choices[at]
    IN  /\ screen.at = "open"
        /\ \/ k = "up" /\ at > 1 /\ screen' = [screen EXCEPT !.cursor = at - 1]
           \/ /\ k = "down" /\ at < Len(screen.choices)
              /\ screen' = [screen EXCEPT !.cursor = at + 1]
           \/ /\ k = "space" /\ screen.kind # "one" /\ screen.choices # <<>>
              /\ screen' = [screen EXCEPT !.marked =
                     IF name \in @ THEN @ \ {name} ELSE @ \union {name}]
           \/ /\ k = "all" /\ screen.kind # "one"
              /\ screen' = [screen EXCEPT !.marked =
                     @ \union Range(screen.choices)]
           \/ /\ k = "none" /\ screen.kind # "one"
              /\ screen' = [screen EXCEPT !.marked =
                     @ \ Range(screen.choices)]
           \/ /\ k = "enter" /\ screen.kind = "one" /\ screen.choices # <<>>
              /\ Close("one", screen.choices, <<name>>)
           \/ /\ k = "enter" /\ screen.kind # "one"
              /\ selection # <<>> \/ screen.kind = "clients"
              /\ Close(screen.kind, screen.choices, selection)
           \/ k = "escape" /\ screen' = NoScreen

-----------------------------------------------------------------------------
(* A typed selection.  A number counts from one; a name goes before the    *)
(* number it may read as.                                                  *)

Meant(word, choices) ==
    IF word \notin Range(choices) /\ NumberOf[word] \in 1..Len(choices)
    THEN choices[NumberOf[word]] ELSE word

Add(selected, name) ==
    IF name \in Range(selected) THEN selected ELSE Append(selected, name)

(* {} for a line of blanks, or with a word that means nothing. *)
Parse(words, choices) ==
    LET meant == [i \in 1..Len(words) |-> Meant(words[i], choices)]
        selected[i \in 0..Len(words)] ==
            IF i = 0 THEN <<>> ELSE Add(selected[i - 1], meant[i])
    IN  IF words = <<>> \/ ~ Range(meant) \subseteq Range(choices)
        THEN {} ELSE {selected[Len(words)]}

Lines == {<<>>} \union {<<w>> : w \in Words} \union (Words \X Words)

(* An empty line is the saved one, or all of the tools if none was saved;  *)
(* "all" is all, and setup takes "none" for no client.                     *)
Answers(kind, choices, current) ==
    UNION {{choices},
           UNION {Parse(words, choices) : words \in Lines},
           IF current # <<>> THEN Parse(current, choices) ELSE {},
           IF kind = "clients" THEN {<<>>} ELSE {}}

(* The choice typed on one line; one that is refused ends the command.     *)
typed ==
    /\ screen.at # "open"
    /\ \E n \in 0..Len(Offers), kind \in {"tools", "clients"},
          current \in Lines :
           LET choices == SubSeq(Offers, 1, n)
           IN  \E result \in Answers(kind, choices, current) :
                   Close(kind, choices, result)

Keys == {"up", "down", "space", "all", "none", "enter", "escape"}

Next ==
    \/ open
    \/ \E k \in Keys : key(k)
    \/ typed

-----------------------------------------------------------------------------
(* Properties *)

(* The cursor stays on a choice if there is one; what a screen hands on is *)
(* offered, without repetition, and for tools never empty.                 *)
TypeOK ==
    /\ screen.at = "open" =>
           /\ \/ screen.cursor \in 1..Len(screen.choices)
              \/ screen.choices = <<>> /\ screen.cursor = 1
           /\ screen.marked \subseteq Words
    /\ screen.at = "closed" =>
           /\ Range(screen.result) \subseteq Range(screen.offers)
           /\ IsInjective(screen.result)
           /\ (screen.kind = "tools" /\ screen.offers # <<>>)
                  => screen.result # <<>>
=============================================================================

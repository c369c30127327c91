------------------------------ MODULE Sequence ------------------------------
(***************************************************************************)
(* The sequence diagram of the debugger (debugger/internal/sequence.go),   *)
(* drawn with characters.  A diagram is a sequence of lines; of a line the *)
(* model keeps, for each participant, how many characters come before and  *)
(* after the one in the middle, and what that one is; the characters that  *)
(* are part of an arrow; and the counts given to WriteRepeat.              *)
(*                                                                         *)
(* Names and messages are their lengths.  One step draws one arrow.        *)
(***************************************************************************)
EXTENDS Integers, Sequences, FiniteSets, SequencesExt, FiniteSetsExt

CONSTANTS
    Participants,   \* the participants
    NameLength,     \* participant -> length of its name
    MessageLengths, \* lengths of messages
    Times,          \* logical times of the arrows: sequences
    CrashChoices,   \* crash information: functions from times to participants
    MarkerSize,     \* DrawSettings.MarkerSize
    MaxArrows       \* bound: arrows in a diagram

ASSUME SequenceAssumption ==
    /\ NameLength \in [Participants -> Nat]
    /\ MessageLengths \subseteq Nat /\ MarkerSize \in Nat
    /\ MaxArrows \in Nat
    /\ \A t \in Times : t \in Seq(Nat) /\ Len(t) >= MaxArrows
    /\ \A c \in CrashChoices : \A t \in DOMAIN c : c[t] \subseteq Participants

VARIABLES
    arrows, Crashes, MarkAt,  \* what is to be drawn
    names, boxSize, gaps,     \* the layout
    drawn,                    \* how many arrows are drawn
    deadNodes,                \* participants that have crashed
    line, foundLine,          \* number of lines above the marked arrow
    output                    \* the lines

input == <<arrows, Crashes, MarkAt>>
layout == <<names, boxSize, gaps>>
vars == <<input, layout, drawn, deadNodes, line, foundLine, output>>

Arrows == [from : Participants, to : Participants, length : MessageLengths]

Init ==
    /\ \E n \in 1 .. MaxArrows, t \in Times, s \in [1 .. MaxArrows -> Arrows] :
          arrows = [i \in 1 .. n |-> [from |-> s[i].from, to |-> s[i].to,
                                      length |-> s[i].length, at |-> t[i]]]
    /\ Crashes \in CrashChoices
    /\ MarkAt \in 1 .. Len(arrows)
    /\ names = <<>> /\ boxSize = 0 /\ gaps = <<>>
    /\ drawn = 0 /\ deadNodes = {}
    /\ line = 0 /\ foundLine = FALSE
    /\ output = <<>>

---------------------------------------------------------------------------
(* DrawDiagram: names, directions and gaps *)

(* The participants in the order of their first appearance. *)
Names ==
    LET ends == FlattenSeq([i \in 1 .. Len(arrows) |-> <<arrows[i].from, arrows[i].to>>])
    IN  FoldLeft(LAMBDA found, p : IF Contains(found, p) THEN found ELSE Append(found, p),
                 <<>>, ends)

index(ns, p) == CHOOSE i \in 1 .. Len(ns) : ns[i] = p

(* A loop goes to the right, except at the end. *)
goingRight(ns, a) ==
    LET from == index(ns, a.from)  to == index(ns, a.to)
    IN  from < to \/ (from = to /\ from # Len(ns))

(* The gap in which the message is written; gap i is left of name i. *)
gapIndexToAnnotate(ns, a) ==
    IF goingRight(ns, a) THEN index(ns, a.from) + 1 ELSE index(ns, a.from)

(* length of the message with its markers *)
message(a) == a.length + 2 * MarkerSize

(* The least odd size that the names fit in *)
BoxSize(ns) == Max({4 + NameLength[p] + ((NameLength[p] + 1) % 2) : p \in ToSet(ns)})

(* Mutant: as if all of the box were free for the message. *)
GapBetweenBoxes(widest, size) == IF widest < size THEN 0 ELSE widest - size

(* A message has room above the halves of two boxes, too. *)
Gap(widest, size) == IF widest < size - 1 THEN 0 ELSE widest - (size - 1)

DrawDiagram ==
    /\ names = <<>>
    /\ names' = Names
    /\ boxSize' = BoxSize(Names)
    /\ gaps' = [i \in 1 .. Len(Names) |->
                  Gap(Max({0} \cup {message(a) : a \in {b \in ToSet(arrows) :
                                        gapIndexToAnnotate(Names, b) = i}}),
                      BoxSize(Names))]
    /\ UNCHANGED <<input, drawn, deadNodes, line, foundLine, output>>

---------------------------------------------------------------------------
(* Lines *)

Indices == 1 .. Len(names)
halfBox == boxSize \div 2

from(a) == index(names, a.from)
to(a) == index(names, a.to)
Right(a) == goingRight(names, a)

Line(kind, before, after, middle, counts) ==
    [kind |-> kind, before |-> before, after |-> after, middle |-> middle,
     counts |-> counts]

Life(dead, i) == IF names[i] \in dead THEN "none" ELSE "life"

(* The boxes: columns of the top and the bottom, which leave halfPoint on  *)
(* each side of the middle; between them the name, with slack before and   *)
(* remaining after it.                                                     *)
appendBoxes ==
    LET halfPoint == (boxSize - 2) \div 2
        totalSpace(i) == boxSize - 4 - NameLength[names[i]]
        slack(i) == totalSpace(i) \div 2
        remaining(i) == totalSpace(i) - slack(i)
    IN  Line("box", [i \in Indices |-> gaps[i] + 1 + halfPoint],
                    [i \in Indices |-> halfPoint + 1],
                    [i \in Indices |-> "box"],
                    {halfPoint} \cup UNION {{gaps[i], slack(i), remaining(i)} : i \in Indices})

(* Three lines for the crashes at the time of the arrow *)
CrashLines(new, dead) ==
    LET one(j) == Line("crash", [i \in Indices |-> halfBox - 2 + gaps[i] + 2],
                       [i \in Indices |-> 2 + halfBox - 2],
                       [i \in Indices |-> IF names[i] \in new THEN "crashed" ELSE Life(dead, i)],
                       {halfBox - 2 + gaps[i] : i \in Indices} \cup {halfBox - 2})
    IN  [j \in 1 .. 3 |-> one(j)]

(* The message, in the middle of its gap and the halves of the boxes *)
Annotation(a, dead) ==
    LET totalSpace(i) == 2 * halfBox + gaps[i] - message(a)
        space(i) == halfBox + gaps[i] + (IF i = 1 THEN 0 ELSE halfBox)
        here(i) == i = gapIndexToAnnotate(names, a)
    IN  Line("message",
             [i \in Indices |-> IF here(i) THEN totalSpace(i) + message(a) ELSE space(i)],
             [i \in Indices |-> 0],
             [i \in Indices |-> Life(dead, i)],
             {IF here(i) THEN totalSpace(i) ELSE space(i) : i \in Indices})

(* Mutant: the gap before the target is left empty. *)
PassesBefore(a, i) ==
    IF Right(a) THEN from(a) < i /\ i < to(a) ELSE to(a) < i /\ i < from(a)

(* Does the arrow go through the gap left of i? *)
Passes(a, i) ==
    IF Right(a) THEN from(a) < i /\ i <= to(a) ELSE to(a) < i /\ i <= from(a)

Between(a, i) == (from(a) < i /\ i < to(a)) \/ (to(a) < i /\ i < from(a))

LeavesRight(a, i) ==
    IF Right(a) THEN from(a) <= i /\ i < to(a) ELSE to(a) <= i /\ i < from(a)

Middle(a, dead, i) ==
    CASE i = from(a)   -> "tail"
      [] i = to(a)     -> "head"
      [] Between(a, i) -> "crossing"
      [] OTHER         -> Life(dead, i)

ArrowLine(kind, middle) ==
    Line(kind, [i \in Indices |-> gaps[i] + halfBox], [i \in Indices |-> halfBox],
         middle, {gaps[i] : i \in Indices} \cup {halfBox - 1})

(* One line for an arrow, two for a loop *)
ArrowLines(a, dead) ==
    IF from(a) = to(a)
    THEN <<ArrowLine("loop", [i \in Indices |->
                IF i = from(a) /\ names[i] \notin dead THEN "tail" ELSE Life(dead, i)]),
           ArrowLine("loop", [i \in Indices |->
                IF i = from(a) THEN "head" ELSE Life(dead, i)])>>
    ELSE <<ArrowLine("arrow", [i \in Indices |-> Middle(a, dead, i)])>>

NewCrashes(a) == IF a.at \in DOMAIN Crashes THEN Crashes[a.at] ELSE {}

(* How many lines the arrow takes *)
Counted(a) ==
    Len(ArrowLines(a, {})) + 1 + IF a.at \in DOMAIN Crashes THEN 3 ELSE 0

Dead(a) == deadNodes \cup NewCrashes(a)

(* One round of the loop of appendArrows *)
appendArrow ==
    /\ names # <<>> /\ drawn < Len(arrows)
    /\ LET a == arrows[drawn + 1]
           found == foundLine \/ drawn + 1 = MarkAt
           crash == IF a.at \in DOMAIN Crashes THEN CrashLines(NewCrashes(a), Dead(a)) ELSE <<>>
       IN  /\ deadNodes' = Dead(a)
           /\ foundLine' = found
           /\ output' = output \o crash \o <<Annotation(a, Dead(a))>> \o ArrowLines(a, Dead(a))
           /\ line' = IF found THEN line ELSE line + Counted(a)
    /\ drawn' = drawn + 1
    /\ UNCHANGED <<input, layout>>

Next == DrawDiagram \/ appendArrow

Spec == Init /\ [][Next]_vars

---------------------------------------------------------------------------
(* redraw: the part of the diagram that is shown in totalViewed lines.     *)
(* The lines are those of output and three for the boxes below it.         *)

minimum(x, y) == IF x > y THEN y ELSE x

(* Mutant: the view ends with the line that was found. *)
WindowAbove(totalViewed) ==
    LET beforeLimit == totalViewed \div 2
        lines == Len(output) + 3
    IN  IF line < beforeLimit THEN 1 .. minimum(totalViewed, lines)
        ELSE line - beforeLimit + 1 .. minimum(line + 1, lines)

(* The numbers of the lines that are shown, from 1 on *)
Window(totalViewed) ==
    LET beforeLimit == totalViewed \div 2
        lines == Len(output) + 3
    IN  IF line < beforeLimit THEN 1 .. minimum(totalViewed, lines)
        ELSE line - beforeLimit + 1 .. minimum(line + (totalViewed - beforeLimit), lines)

(* WriteRepeat(s, count) for a string of length n, as indices of s: the    *)
(* text is doubled until what is missing is at most as long as it is.      *)
WriteRepeat(n, count) ==
    LET on == n * count
        w[i \in 0 .. count] ==
            IF i = 0 THEN [j \in 1 .. n |-> j]
            ELSE LET b == w[i - 1]
                 IN  CASE Len(b) >= on      -> b
                       [] Len(b) <= on \div 2 -> b \o b
                       [] OTHER             -> b \o SubSeq(b, 1, on - Len(b))
    IN  IF count = 0 THEN <<>> ELSE w[count]

---------------------------------------------------------------------------
(* What should hold. *)

Column(l, i) ==
    FoldLeft(LAMBDA sum, j : sum + l.before[j] + 1 + l.after[j], 0, [j \in 1 .. i - 1 |-> j])
        + l.before[i] + 1

Finished == drawn = Len(arrows)

(* The variables of the loop are in their ranges, and the line that was    *)
(* found is one of the diagram ("line is calculated wrong").               *)
TypeOK ==
    /\ drawn \in 0 .. Len(arrows)
    /\ deadNodes \subseteq Participants
    /\ line \in 0 .. Len(output)

(* Every lifeline is one straight line, below the middle of its box, in    *)
(* every line of the diagram: whatever the lengths of names and messages,  *)
(* the loops and the crashes; except when there is but one participant.    *)
LifelinesAreStraight ==
    Len(names) > 1 =>
        \A k \in 1 .. Len(output), i \in Indices :
            Column(output[k], i) = Column(appendBoxes, i)

(* WriteRepeat is never called with a negative count, which is a panic,    *)
(* and writes the string as often as it is told, in the boxes and in every *)
(* other line.                                                             *)
RepeatsAreExact ==
    \A l \in {m \in ToSet(output) \cup {appendBoxes} : names # <<>>} : \A c \in l.counts :
        /\ c >= 0
        /\ \A n \in {1, 3} : LET w == WriteRepeat(n, c)
                             IN  /\ Len(w) = n * c
                                 /\ \A j \in 1 .. Len(w) : w[j] = 1 + ((j - 1) % n)

(* The characters of the arrow a in a line l *)
Stroke(a, l) ==
    UNION {LET c == Column(l, i)
           IN  (IF Passes(a, i) THEN c - halfBox - gaps[i] .. c - 1 ELSE {})
               \cup (IF LeavesRight(a, i) THEN c + 1 .. c + halfBox ELSE {})
               \cup (IF Between(a, i) THEN {c} ELSE {}) : i \in Indices}

(* An arrow is an unbroken line between the lifelines of its sender and of *)
(* its receiver, and nothing else.                                         *)
ArrowsConnect ==
    Finished =>
        \A n \in 1 .. Len(arrows) :
            LET a == arrows[n]
                x == Column(appendBoxes, from(a))
                y == Column(appendBoxes, to(a))
            IN  from(a) # to(a) =>
                  Stroke(a, appendBoxes) = (x + 1 .. y - 1) \cup (y + 1 .. x - 1)

(* Once its crash has been drawn a participant has no lifeline any more. *)
DeadStayDead ==
    \A k \in 1 .. Len(output), i \in Indices :
        (\E j \in 1 .. k - 1 : output[j].kind = "crash" /\ output[j].middle[i] = "crashed") =>
            output[k].middle[i] # "life"

(* A view of at least seven lines shows the message of the marked arrow,   *)
(* with the crashes that are drawn right above it.                         *)
MarkIsShown ==
    Finished =>
        LET above == {k \in 1 .. Len(output) : output[k].kind = "message"}
            marked == CHOOSE k \in above :
                          Cardinality({j \in above : j <= k}) = MarkAt
        IN  \A totalViewed \in 7 .. 10 : marked \in Window(totalViewed)

(* The lines of a diagram fit together: repeats are exact, lifelines are   *)
(* straight, and they end with the crash of their participant.             *)
DiagramInv == TypeOK /\ RepeatsAreExact /\ LifelinesAreStraight /\ DeadStayDead
=============================================================================

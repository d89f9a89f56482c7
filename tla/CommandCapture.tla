--------------------------- MODULE CommandCapture ---------------------------
(***************************************************************************)
(* TerminalCommandCapture (ssh/command-capture.ts): which of the lines a   *)
(* user types are recorded.  A line that is entered waits as a candidate   *)
(* until the terminal shows it, ended by a newline, later than it was      *)
(* entered; so an answer typed where the terminal does not echo is not     *)
(* recorded.                                                               *)
(*                                                                         *)
(* A text is a sequence of characters.  The capture keeps positions in the *)
(* output it still holds; entered and dropped are positions in the whole   *)
(* output, kept here to compare with.                                      *)
(***************************************************************************)
EXTENDS Integers, SequencesExt

CONSTANTS Newline, Backspace, Interrupt, Escape,  \* the characters with a meaning
          Sensitive,    \* commands isSafeCommandForHistory refuses by their text
          MaxCommand,   \* MAX_CAPTURED_COMMAND_CHARS
          MaxPending,   \* MAX_PENDING_COMMANDS
          MaxOutput,    \* MAX_OUTPUT_CHARS
          Margin        \* how far before the line was entered its echo may begin, 512

ASSUME CaptureAssumption == {MaxCommand, MaxPending, MaxOutput, Margin} \subseteq Nat

\* pending: the candidates; dropped: what the output has lost at its front.
EmptyCapture ==
  [buffer |-> <<>>, unsafe |-> FALSE, output |-> <<>>, pending |-> <<>>, dropped |-> 0]

AtLeastZero(n) == IF n < 0 THEN 0 ELSE n

ResetLine(c) == [c EXCEPT !.buffer = <<>>, !.unsafe = FALSE]
Reset(c) == [EmptyCapture EXCEPT !.dropped = c.dropped + Len(c.output)]

Safe(command) == Len(command) \in 1 .. MaxCommand /\ command \notin Sensitive

\* prunePending: a candidate is too old after CANDIDATE_TTL_MS.
Prune(pending) ==
  LET left[n \in 0 .. Len(pending)] ==
        IF n = 0 THEN <<>>
        ELSE IF pending[n].old THEN left[n - 1] ELSE Append(left[n - 1], pending[n])
  IN  left[Len(pending)]
Aged(c) == [c EXCEPT !.pending = [i \in DOMAIN @ |-> [@[i] EXCEPT !.old = TRUE]]]

Candidate(c) ==
  [command |-> c.buffer, old |-> FALSE,
   from |-> AtLeastZero(Len(c.output) - Len(c.buffer) - Margin),
   minEnd |-> Len(c.output) + 1,
   entered |-> c.dropped + Len(c.output)]

\* The newest MaxPending candidates wait.
Enter(c) ==
  LET waiting == Append(Prune(c.pending), Candidate(c))
  IN  ResetLine(IF c.unsafe \/ ~Safe(c.buffer) THEN c
                ELSE [c EXCEPT !.pending = IF Len(waiting) > MaxPending THEN Tail(waiting)
                                           ELSE waiting])

\* One character of the input.
Key(c, k) ==
  CASE k = Newline   -> Enter(c)
    [] k = Backspace -> [c EXCEPT !.buffer = IF @ = <<>> THEN @ ELSE Front(@)]
    [] k = Interrupt -> Reset(c)
    [] k = Escape    -> [c EXCEPT !.unsafe = TRUE]
    [] OTHER         -> IF Len(c.buffer) < MaxCommand THEN [c EXCEPT !.buffer = Append(@, k)]
                        ELSE [c EXCEPT !.unsafe = TRUE]

\* feed: a newline ends the chunk, or the chunk was pasted and is not looked at.
Feed(c, chunk) ==
  LET fed[n \in 0 .. Len(chunk)] == IF n = 0 THEN c ELSE Key(fed[n - 1], chunk[n])
  IN  IF \E i \in DOMAIN chunk : chunk[i] = Newline /\ i < Len(chunk)
        THEN ResetLine(c)
        ELSE fed[Len(chunk)]

\* Faulty variant of Shift: the positions of the candidates stay.
ShiftOutputOnly(c, n) ==
  [c EXCEPT !.output = SubSeq(@, n + 1, Len(@)), !.dropped = @ + n]

\* n characters leave the front of the output, and the positions move with it.
Moved(p, n) == [p EXCEPT !.from = AtLeastZero(@ - n), !.minEnd = AtLeastZero(@ - n)]
Shift(c, n) ==
  [c EXCEPT !.output = SubSeq(@, n + 1, Len(@)),
            !.dropped = @ + n,
            !.pending = [i \in DOMAIN @ |-> Moved(@[i], n)]]

\* The ends of command, followed by a newline, in output from position from on.
Ends(output, command, from) ==
  {end \in from + Len(command) + 1 .. Len(output) :
     SubSeq(output, end - Len(command), end) = Append(command, Newline)}

\* The first end that counts for candidate p when output is used up to used.
Matches(output, p, used) ==
  {end \in Ends(output, p.command, IF p.from > used THEN p.from ELSE used) : end >= p.minEnd}
First(ends) == CHOOSE e \in ends : \A other \in ends : e <= other

\* Candidate p is looked for: acc.used is how much of the output has been used up,
\* acc.left are those not found, acc.confirmed those that were.
Look(c, acc, p) ==
  LET ends == Matches(c.output, p, acc.used)
  IN  IF ends = {} THEN [acc EXCEPT !.left = Append(@, p)]
      ELSE [acc EXCEPT !.used = First(ends),
                       !.confirmed = Append(@, [command |-> p.command, entered |-> p.entered,
                                                end |-> c.dropped + First(ends)])]
Unlooked == [used |-> 0, left |-> <<>>, confirmed |-> <<>>]

\* observeOutput: the output grows by text, loses its front when it is too long,
\* and each candidate in turn takes the first end after the one before took its
\* own.  The result: the capture, and the commands confirmed.
Observed(c, text) ==
  LET grown   == [c EXCEPT !.output = @ \o text]
      kept    == Shift(grown, AtLeastZero(Len(grown.output) - MaxOutput))
      waiting == Prune(kept.pending)
      seen[n \in 0 .. Len(waiting)] ==
        IF n = 0 THEN Unlooked ELSE Look(kept, seen[n - 1], waiting[n])
      over    == seen[Len(waiting)]
  IN  [capture |-> Shift([kept EXCEPT !.pending = over.left], over.used),
       confirmed |-> over.confirmed]
=============================================================================

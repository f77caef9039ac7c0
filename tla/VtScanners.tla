----------------------------- MODULE VtScanners -----------------------------
(***************************************************************************)
(* The four walks over a session's output: modeScanner and titleScanner,   *)
(* which follow it live, and sanitizeReplay and endsInAltScreen, which     *)
(* read a snapshot of the ring buffer.  They are stated beside a reading   *)
(* of the same bytes as a terminal gives it (section Reference): an ESC    *)
(* always begins a sequence, whatever it interrupts.                       *)
(*                                                                         *)
(* A byte is a member of Byte; a run of digits is one member.  Of the      *)
(* modes three are kept, one of each kind the code has: a single value     *)
(* (the alternate screen, with two spellings), a switch with a spelling of *)
(* its own (the keypad) and one that is on in a reset terminal (wrapping). *)
(***************************************************************************)
EXTENDS Naturals, Sequences, FiniteSets

CONSTANTS
  Fragments,  \* what a PTY read is put together from: sequences of bytes
  MaxRead,    \* bound: fragments that one read returns
  MaxOutput,  \* bound: fragments of output
  RingSize,   \* RingBuffer.max, in bytes
  MaxParams,  \* maxParams, in bytes
  MaxTitle    \* maxTitleBytes

AltSpelling == {"1049", "47"}
Digits == AltSpelling \cup {"7", "11", "6", "2"}
ParamByte == Digits \cup {"?", ";", "=", ">"}            \* 0x20 to 0x3f
FinalByte == {"[", "]", "P", "\\", "h", "l", "c", "n", "x"}  \* 0x40 to 0x7e
Byte == ParamByte \cup FinalByte \cup {"ESC", "BEL"}

\* The scanners collect the parameters of the sequences that the server sends
\* itself, ? and a mode: maxParams is 64.
ASSUME ConstantsAssumption ==
  /\ Fragments \subseteq Seq(Byte)
  /\ {MaxRead, MaxOutput, RingSize, MaxParams, MaxTitle} \subseteq Nat \ {0}
  /\ MaxParams # 1

VARIABLES
  output,   \* every byte the session has written
  count,    \* fragments in it
  unread,   \* the chunk that is broadcast and not scanned yet
  mode,     \* the read loop's modeScanner
  title,    \* the read loop's titleScanner
  session   \* what the Session holds: the ring buffer, modes and title

scannerVars == <<output, count, unread, mode, title, session>>

Reset == [alt |-> "", keypad |-> FALSE, wrapOff |-> FALSE]

\* The result of walking a sequence with a scanner, from its state init.
Walk(Step(_, _), init, bytes) ==
  LET at[i \in 0..Len(bytes)] == IF i = 0 THEN init ELSE Step(at[i - 1], bytes[i])
  IN  at[Len(bytes)]

\* splitParams: the parameters of a run, in order.
SplitParams(params) ==
  LET cuts == {0, Len(params) + 1} \cup {i \in DOMAIN params : params[i] = ";"}
      next(i) == CHOOSE j \in cuts : j > i /\ \A k \in cuts : k > i => j <= k
  IN  [n \in 1..Cardinality(cuts) - 1 |->
         LET i == CHOOSE c \in cuts : Cardinality({k \in cuts : k < c}) = n - 1
         IN  SubSeq(params, i + 1, next(i) - 1)]

-----------------------------------------------------------------------------
(* modeScanner                                                             *)

\* Variant: a reset of one spelling leaves another one on.
ApplyOneSpelling(modes, ps, set) ==
  IF Len(ps) # 1 THEN modes
  ELSE IF ps[1] \in AltSpelling
    THEN IF set THEN [modes EXCEPT !.alt = ps[1]]
         ELSE IF modes.alt = ps[1] THEN [modes EXCEPT !.alt = ""] ELSE modes
  ELSE IF ps[1] = "7" THEN [modes EXCEPT !.wrapOff = ~set] ELSE modes

Apply(modes, ps, set) ==
  IF Len(ps) # 1 THEN modes
  ELSE IF ps[1] \in AltSpelling THEN [modes EXCEPT !.alt = IF set THEN ps[1] ELSE ""]
  ELSE IF ps[1] = "7" THEN [modes EXCEPT !.wrapOff = ~set] ELSE modes

ApplyAll(modes, params, set) ==
  Walk(LAMBDA ms, ps : Apply(ms, ps, set), modes, SplitParams(params))

\* Where a scanner stands after ESC and one more byte that is not an ESC.
Introduced(b) == IF b = "[" THEN "csi" ELSE IF b \in {"]", "P"} THEN "string" ELSE "ground"

\* What ESC and one more byte does to the modes: DECKPAM and DECKPNM.
Keypad(modes, b) ==
  IF b \in {"=", ">"} THEN [modes EXCEPT !.keypad = (b = "=")] ELSE modes

\* A run is collected up to MaxParams bytes and one more, which makes it tooLong.
Collected(params, b) == IF Len(params) > MaxParams THEN params ELSE Append(params, b)
TooLong(params) == Len(params) > MaxParams

\* A complete CSI sequence: DECSET and DECRST are read, the rest ignored.
Completed(modes, params, b) ==
  IF ~TooLong(params) /\ b \in {"h", "l"} /\ params # <<>> /\ Head(params) = "?"
    THEN ApplyAll(modes, Tail(params), b = "h")
    ELSE modes

\* One byte of modeScanner.scan.
ModeStep(m, b) ==
  CASE m.st = "ground" -> [m EXCEPT !.st = IF b = "ESC" THEN "esc" ELSE "ground"]
    [] m.st = "esc" ->
         [st |-> IF b = "ESC" THEN "esc" ELSE Introduced(b),
          params |-> <<>>, modes |-> Keypad(m.modes, b)]
    [] m.st = "csi" ->
         (CASE b \in FinalByte ->
                [st |-> "ground", params |-> <<>>, modes |-> Completed(m.modes, m.params, b)]
            [] b \in ParamByte -> [m EXCEPT !.params = Collected(@, b)]
            [] OTHER -> [m EXCEPT !.st = "ground", !.params = <<>>])
    [] m.st = "string" ->
         [m EXCEPT !.st = CASE b = "BEL" -> "ground" [] b = "ESC" -> "stringEsc"
                            [] OTHER -> "string"]
    [] m.st = "stringEsc" ->
         [m EXCEPT !.st = Introduced(b), !.modes = Keypad(@, b)]

NewModeScanner == [st |-> "ground", params |-> <<>>, modes |-> Reset]

HasEsc(data) == \E i \in DOMAIN data : data[i] = "ESC"

\* scan, with its fast path: in ground, a chunk without an ESC is not walked.
ScanModes(m, data) ==
  IF m.st = "ground" /\ ~HasEsc(data) THEN m ELSE Walk(ModeStep, m, data)

\* preamble: the sequences that put a fresh terminal into these modes.
Preamble(modes) ==
  (IF modes.alt = "" THEN <<>> ELSE <<"ESC", "[", "?", modes.alt, "h">>)
  \o (IF modes.keypad THEN <<"ESC", "=">> ELSE <<>>)
  \o (IF modes.wrapOff THEN <<"ESC", "[", "?", "7", "l">> ELSE <<>>)

-----------------------------------------------------------------------------
(* titleScanner                                                            *)

\* A payload is collected up to MaxTitle bytes, and the rest is dropped.
Added(payload, b) == IF Len(payload) < MaxTitle THEN Append(payload, b) ELSE payload

\* finish: the text of a title sequence, or {} of any other.
Finish(intro, payload) ==
  IF intro = "]" /\ Len(payload) >= 2 /\ payload[1] = "2" /\ payload[2] = ";"
    THEN {SubSeq(payload, 3, Len(payload))}
    ELSE {}

\* A string sequence that ended: the last title completed wins.
Ended(t) ==
  LET done == Finish(t.intro, t.payload)
  IN  [t EXCEPT !.st = "ground", !.payload = <<>>,
                !.title = IF done = {} THEN @ ELSE done]

\* vtEsc of the title scanner: only string sequences need a state.
TitleEsc(t, b) ==
  [t EXCEPT !.st = CASE b = "ESC" -> "esc" [] b \in {"]", "P"} -> "string"
                     [] OTHER -> "ground",
            !.intro = IF b \in {"]", "P"} THEN b ELSE "",
            !.payload = <<>>]

\* Variant: as ModeStep does it, the byte after an abandoned string is spent.
TitleStepSpends(t, b) ==
  CASE t.st = "ground" -> [t EXCEPT !.st = IF b = "ESC" THEN "esc" ELSE "ground"]
    [] t.st = "esc" -> TitleEsc(t, b)
    [] t.st = "string" ->
         (CASE b = "BEL" -> Ended(t)
            [] b = "ESC" -> [t EXCEPT !.st = "stringEsc"]
            [] OTHER -> [t EXCEPT !.payload = Added(@, b)])
    [] t.st = "stringEsc" ->
         IF b = "\\" THEN Ended(t) ELSE [t EXCEPT !.st = "ground"]

\* One byte of titleScanner.scan; a byte that abandons a string is dispatched
\* again from vtEsc.
TitleStep(t, b) ==
  CASE t.st = "ground" -> [t EXCEPT !.st = IF b = "ESC" THEN "esc" ELSE "ground"]
    [] t.st = "esc" -> TitleEsc(t, b)
    [] t.st = "string" ->
         (CASE b = "BEL" -> Ended(t)
            [] b = "ESC" -> [t EXCEPT !.st = "stringEsc"]
            [] OTHER -> [t EXCEPT !.payload = Added(@, b)])
    [] t.st = "stringEsc" -> IF b = "\\" THEN Ended(t) ELSE TitleEsc(t, b)

NewTitleScanner == [st |-> "ground", intro |-> "", payload |-> <<>>, title |-> {}]

\* scan: the title completed last in this chunk is left in title, {} if none.
ScanTitle(t, data) ==
  IF t.st = "ground" /\ ~HasEsc(data) THEN [t EXCEPT !.title = {}]
  ELSE Walk(TitleStep, [t EXCEPT !.title = {}], data)

-----------------------------------------------------------------------------
(* sanitizeReplay                                                          *)

\* csiIsQuery, of device attributes and status reports.
CsiIsQuery(params, b) ==
  \/ b = "c"
  \/ b = "n" /\ (params = <<>> \/ Head(params) # ">")

\* stringIsQuery, of an OSC colour query.
StringIsQuery(intro, payload) ==
  /\ intro = "]" /\ ~TooLong(payload)
  /\ Len(payload) >= 3 /\ payload[1] = "11" /\ payload[2] = ";"
  /\ payload[Len(payload)] = "?" /\ payload[Len(payload) - 1] = ";"

\* Variant: kept = end, the final byte stays.
DropAllButLast(r) ==
  [r EXCEPT !.st = "ground", !.out = SubSeq(@, 1, r.start - 1) \o <<@[Len(@)]>>]

\* drop: everything of out from the introducing ESC on.
Drop(r) == [r EXCEPT !.st = "ground", !.out = SubSeq(@, 1, r.start - 1)]

\* vtEsc of the filter.
ReplayEsc(r, b) ==
  IF b = "ESC" THEN [r EXCEPT !.start = Len(r.out)]
  ELSE [r EXCEPT !.st = Introduced(b), !.run = <<>>, !.intro = b]

\* The ESC before b abandoned a string and introduces a sequence of its own.
ReplayAbandons(r, b) ==
  ReplayEsc([r EXCEPT !.st = "esc", !.start = Len(r.out) - 1], b)

\* One byte of sanitizeReplay.  out holds it already: a drop takes it back.
ReplayStep(r0, b) ==
  LET r == [r0 EXCEPT !.out = Append(@, b)]
  IN CASE r.st = "ground" ->
            IF b = "ESC" THEN [r EXCEPT !.st = "esc", !.start = Len(r.out)] ELSE r
       [] r.st = "esc" -> ReplayEsc(r, b)
       [] r.st = "csi" ->
            (CASE b \in FinalByte ->
                   IF ~TooLong(r.run) /\ CsiIsQuery(r.run, b) THEN Drop(r)
                   ELSE [r EXCEPT !.st = "ground"]
               [] b \in ParamByte -> [r EXCEPT !.run = Collected(@, b)]
               [] OTHER -> [r EXCEPT !.st = "ground"])
       [] r.st = "string" ->
            (CASE b = "BEL" ->
                   IF StringIsQuery(r.intro, r.run) THEN Drop(r)
                   ELSE [r EXCEPT !.st = "ground"]
               [] b = "ESC" -> [r EXCEPT !.st = "stringEsc"]
               [] OTHER -> [r EXCEPT !.run = Collected(@, b)])
       [] r.st = "stringEsc" ->
            IF b # "\\" THEN ReplayAbandons(r, b)
            ELSE IF StringIsQuery(r.intro, r.run) THEN Drop(r)
            ELSE [r EXCEPT !.st = "ground"]

SanitizeReplay(data) ==
  Walk(ReplayStep, [st |-> "ground", start |-> 0, run |-> <<>>, intro |-> "", out |-> <<>>],
       data).out

-----------------------------------------------------------------------------
(* endsInAltScreen, restoreSeparator, the ring buffer                      *)

\* Variant: any spelling set and never reset by its own name counts.
EndsInAltOnce(data) ==
  \E n \in 1..Len(data) : Walk(ModeStep, NewModeScanner, SubSeq(data, 1, n)).modes.alt # ""

\* endsInAltScreen: the walk of modeScanner, of which alt is all it keeps.
EndsInAltScreen(data) == Walk(ModeStep, NewModeScanner, data).modes.alt # ""

\* restoreSeparator, as far as the modes kept here go.
RestoreSeparator(inAltScreen) ==
  (IF inAltScreen THEN <<"ESC", "[", "?", "1049", "l">> ELSE <<>>)
  \o <<"ESC", ">", "ESC", "[", "?", "7", "h", "x">>

\* RingBuffer.Write: the last RingSize bytes.
Written(buf, data) ==
  LET all == buf \o data IN SubSeq(all, IF Len(all) > RingSize THEN Len(all) - RingSize + 1 ELSE 1, Len(all))

-----------------------------------------------------------------------------
(* The read loop                                                           *)

ScannersInit ==
  /\ output = <<>> /\ count = 0 /\ unread = <<>>
  /\ mode = NewModeScanner /\ title = NewTitleScanner
  /\ session = [buffer |-> <<>>, modes |-> Reset, title |-> <<>>]

Reads(n) == {Walk(LAMBDA all, f : all \o f, <<>>, fs) : fs \in [1..n -> Fragments]}

\* A chunk is read and broadcast into the buffer.
Broadcast ==
  /\ unread = <<>>
  /\ \E n \in 1..MaxRead : \E data \in Reads(n) :
       /\ count + n <= MaxOutput
       /\ count' = count + n
       /\ output' = output \o data
       /\ unread' = data
       /\ session' = [session EXCEPT !.buffer = Written(@, data)]
  /\ UNCHANGED <<mode, title>>

\* Then it is scanned, and setTitle and setModes record what it changed.
Scan ==
  /\ unread # <<>>
  /\ mode' = ScanModes(mode, unread)
  /\ title' = ScanTitle(title, unread)
  /\ session' = [session EXCEPT
       !.modes = mode'.modes,
       !.title = IF title'.title = {} THEN @ ELSE CHOOSE t \in title'.title : TRUE]
  /\ unread' = <<>>
  /\ UNCHANGED <<output, count>>

ScannersNext == Broadcast \/ Scan

ScannersSpec == ScannersInit /\ [][ScannersNext]_scannerVars

\* attach: the bytes a new client, whose terminal is fresh, is sent.
Replay == Preamble(session.modes) \o SanitizeReplay(session.buffer)

\* Restart: the buffer of the next shell.
Reseeded == session.buffer \o RestoreSeparator(EndsInAltScreen(session.buffer))

-----------------------------------------------------------------------------
(* Reference: where a terminal sees the sequences of a run of bytes        *)

Escs(s) == {i \in DOMAIN s : s[i] = "ESC"}

Least(S) == CHOOSE x \in S : \A y \in S : x <= y

\* The ESC after i, or the end.
NextEsc(s, i) == Least({j \in Escs(s) : j > i} \cup {Len(s) + 1})

\* The byte that ends the sequence introduced at i; 0 if it is open, aborted
\* or abandoned.
EndOf(s, i) ==
  LET stop == NextEsc(s, i)
      first(S) == Least({j \in i + 2..stop - 1 : s[j] \in S} \cup {stop})
  IN  IF stop = i + 1 THEN 0
      ELSE CASE s[i + 1] = "[" ->
                  LET j == first(Byte \ ParamByte)
                  IN  IF j < stop /\ s[j] \in FinalByte THEN j ELSE 0
             [] s[i + 1] \in {"]", "P"} ->
                  IF first({"BEL"}) < stop THEN first({"BEL"})
                  ELSE IF stop < Len(s) /\ s[stop + 1] = "\\" THEN stop + 1 ELSE 0
             [] OTHER -> i + 1

Complete(s, kind) == {i \in Escs(s) : EndOf(s, i) # 0 /\ s[i + 1] = kind}

\* The parameters of a CSI sequence and the payload of a string.
Inside(s, i) ==
  SubSeq(s, i + 2, IF s[EndOf(s, i)] = "\\" /\ s[i + 1] # "[" THEN EndOf(s, i) - 2
                   ELSE EndOf(s, i) - 1)

\* The parameters of a complete sequence that sets or resets private modes.
Private(s, i) ==
  LET run == Inside(s, i)
  IN  IF s[EndOf(s, i)] \in {"h", "l"} /\ Len(run) \in 1..MaxParams /\ Head(run) = "?"
        THEN SplitParams(Tail(run)) ELSE <<>>

\* The switches of the modes in P: where, the n-th parameter, which.
Switches(s, P) ==
  UNION {LET ps == Private(s, i)
         IN  {<<i, n, ps[n][1]>> : n \in {n \in DOMAIN ps : Len(ps[n]) = 1 /\ ps[n][1] \in P}}
         : i \in Complete(s, "[")}

\* The value the last switch leaves, off if there is none.
LastSwitch(S, s, on(_), off) ==
  IF S = {} THEN off
  ELSE LET w == CHOOSE w \in S : \A v \in S :
                  v[1] < w[1] \/ (v[1] = w[1] /\ v[2] <= w[2])
       IN  IF s[EndOf(s, w[1])] = "h" THEN on(w[3]) ELSE off

\* The modes a terminal is in after s.
TerminalModes(s) ==
  LET keys == {i \in Escs(s) : i < Len(s) /\ s[i + 1] \in {"=", ">"}}
      wraps == Switches(s, {"7"})
  IN  [alt |-> LastSwitch(Switches(s, AltSpelling), s, LAMBDA x : x, ""),
       keypad |-> \E i \in keys : s[i + 1] = "=" /\ \A j \in keys : j <= i,
       wrapOff |-> wraps # {} /\ ~LastSwitch(wraps, s, LAMBDA x : TRUE, FALSE)]

\* As much of a payload as a title may have.
Kept(payload) == SubSeq(payload, 1, IF Len(payload) < MaxTitle THEN Len(payload) ELSE MaxTitle)

\* The title a terminal shows after s, if it shows so much of it.
TerminalTitle(s) ==
  LET T == {i \in Complete(s, "]") : Finish("]", Kept(Inside(s, i))) # {}}
  IN  IF T = {} THEN <<>>
      ELSE LET last == CHOOSE i \in T : \A j \in T : j <= i
           IN  CHOOSE t \in Finish("]", Kept(Inside(s, last))) : TRUE

\* The sequences of s that a terminal answers; one with more parameters than
\* maxParams is no query.
Queries(s) ==
  {i \in Complete(s, "[") :
     ~TooLong(Inside(s, i)) /\ CsiIsQuery(Inside(s, i), s[EndOf(s, i)])}
    \cup {i \in Complete(s, "]") : StringIsQuery("]", Inside(s, i))}

\* What a terminal draws of s: the bytes in no sequence.
Drawn(s) ==
  LET hides(i, p) == i <= p /\ p <= (IF EndOf(s, i) = 0 THEN NextEsc(s, i) - 1 ELSE EndOf(s, i))
      keep(out, p) == IF \E i \in Escs(s) : hides(i, p) THEN out ELSE Append(out, s[p])
  IN  Walk(keep, <<>>, [p \in 1..Len(s) |-> p])

\* A CSI sequence is followed by a control byte before its final byte: the
\* walks go back to ground there, even when that byte is an ESC.
CutShort(s) ==
  \E i \in Escs(s) :
    /\ i < Len(s) /\ s[i + 1] = "[" /\ EndOf(s, i) = 0
    /\ \E j \in i + 2..Len(s) : s[j] \in {"ESC", "BEL"}

\* The sequences that another one abandons, by an ESC other than ST's.
Abandoned(s) == {i \in Escs(s) : EndOf(s, i) = 0 /\ NextEsc(s, i) <= Len(s)}

\* An ESC abandons a string and is followed by another one, which the
\* modeScanner takes for the sequence's only byte.
Doubled(s) ==
  \E i \in Abandoned(s) :
    s[i + 1] \in {"]", "P"} /\ NextEsc(s, i) < Len(s) /\ s[NextEsc(s, i) + 1] = "ESC"

-----------------------------------------------------------------------------
(* Properties                                                              *)

\* Whatever the reads cut apart, the session's title is the one a terminal
\* that was given all of the output shows (titleScanner, setTitle).
TitleFollows == unread = <<>> => session.title = TerminalTitle(output)

\* The ring buffer holds all of the chunk that is not scanned yet and the
\* beginning of a sequence that it ends: any chunk of 32 KiB if the ring has the
\* 512 KiB of the default, but a configured one may be as small as a byte.
UnreadIsHeld == unread = <<>> \/ Len(unread) + MaxParams + 2 <= RingSize

\* The session's modes are those of a terminal that was given all of the
\* output, abandoned strings included.  A terminal built for a new client,
\* given the preamble and the filtered replay, is in them too, wherever the
\* buffer was cut and even between the broadcast of a chunk and its scan, unless
\* the ring is too small for the chunk: what has passed it then is in neither the
\* preamble nor the replay (modeScanner, preamble, attach).
AttachRestores ==
  ~CutShort(output) /\ ~Doubled(output) =>
    /\ unread = <<>> => session.modes = TerminalModes(output)
    /\ Abandoned(session.buffer) = {} /\ UnreadIsHeld =>
         TerminalModes(Replay) = TerminalModes(output)

\* The filtered replay asks nothing, and draws what the buffer draws.  A query
\* behind an abandoned sequence is dropped as well, and what the sequence then
\* meets is another matter (sanitizeReplay).
ReplayIsInert ==
  ~CutShort(session.buffer) /\ Abandoned(session.buffer) = {} =>
    /\ Queries(SanitizeReplay(session.buffer)) = {}
    /\ Drawn(SanitizeReplay(session.buffer)) = Drawn(session.buffer)

\* The next shell starts on a terminal in its reset state, and the separator
\* leaves the alternate screen only of a terminal that is on it
\* (endsInAltScreen, restoreSeparator).
SeparatorResets ==
  ~CutShort(session.buffer) /\ ~Doubled(session.buffer) =>
    /\ TerminalModes(Reseeded) = Reset
    /\ EndsInAltScreen(session.buffer) <=> TerminalModes(session.buffer).alt # ""

\* The comment of sanitizeReplay: the terminal queries are removed.
QueriesRemoved == Queries(SanitizeReplay(session.buffer)) = {}

=============================================================================

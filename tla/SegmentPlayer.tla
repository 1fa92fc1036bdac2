--------------------------- MODULE SegmentPlayer ---------------------------
(***************************************************************************)
(* The page that plays the annotated segments of a song (plot.js, with the *)
(* jPlayer and the checkboxes of plot.jsp).  Each row holds the segments   *)
(* one algorithm found.  A double click chooses a segment: an interval is  *)
(* to start it as soon as the jPlayer is ready, and from then on a handler *)
(* of the player's timeupdate events decides what happens at the segment's *)
(* end.                                                                    *)
(*                                                                         *)
(* Every handler of the page runs to its end before the next one starts.   *)
(* What is interleaved is when they run: double clicks, buttons, interval  *)
(* ticks and timeupdate events.  The zoom and the layout of the plot are   *)
(* left out, except for when the plot is rendered (see drawn).             *)
(*                                                                         *)
(* Time is counted in ticks, one timeupdate event apart.  Labels are       *)
(* numbered in the order of their strings.                                 *)
(***************************************************************************)
EXTENDS Integers, Sequences, FiniteSets, FiniteSetsExt, SequencesExt

CONSTANTS
  Row,          \* the algorithms, the parent index of a segment's panel
  Data,         \* data: the segments of each row
  AudioLength,  \* the end of the recording
  MaxChoices    \* model bound: segments chosen by a double click

NoRow == 0      \* -1 in the code: no segment is selected

Segment == [o : Nat, f : Nat, l : Nat]   \* onset, end and label

(* The rows are not empty, and a tick is short against a segment.  The     *)
(* segments of a row come in the order of their ends, as the binary search *)
(* for the current one expects.                                            *)
ASSUME DataAssumption ==
  /\ NoRow \notin Row
  /\ Data \in [Row -> Seq(Segment)]
  /\ \A r \in Row :
       /\ Data[r] # <<>>
       /\ \A k \in DOMAIN Data[r] : Data[r][k].o + 1 < Data[r][k].f
       /\ \A j, k \in DOMAIN Data[r] : j < k => Data[r][j].f <= Data[r][k].f
ASSUME AudioAssumption ==
  /\ AudioLength \in Nat
  /\ \A r \in Row : \A k \in DOMAIN Data[r] : Data[r][k].f <= AudioLength
ASSUME ChoicesAssumption == MaxChoices \in Nat

VARIABLES
  ready,         \* jPlayerReady
  intervals,     \* the live intervals in the order they fire next
  playInterval,  \* the id of the last interval made, 0 when undefined
  handler,       \* the function bound to timeupdate, with its closure
  time,          \* currentTime of the jPlayer
  playing,       \* whether the jPlayer plays
  playbackTime,  \* what the page takes for the current time
  selection,     \* the row of focus_plot.selection as it was last set
  drawn,         \* the row of focus_plot.selection as it was last rendered
  table,         \* the row whose segments are listed as buttons
  next,          \* the checkbox "Continue to similar segment"
  repeat,        \* the checkbox "repeat"
  thrown,        \* history: the bound handler has failed with an exception
  hung           \* a handler loops for ever: the page does not react any more

player == <<handler, time, playing, thrown>>
boxes == <<next, repeat>>
choice == <<selection, table>>
vars == <<ready, intervals, playInterval, player, playbackTime, choice,
          drawn, boxes, hung>>

-----------------------------------------------------------------------------
(* stat: the segments of a row in the order of their labels, and a colour  *)
(* for each label.                                                         *)

Labels(line) == {line[k].l : k \in DOMAIN line}

(* Mutant: segments with one label change places.                          *)
BubbleStepUnstable(list, i) ==
  IF list[i].l >= list[i + 1].l
  THEN [list EXCEPT ![i] = list[i + 1], ![i + 1] = list[i]]
  ELSE list

BubbleStep(list, i) ==
  IF list[i].l > list[i + 1].l
  THEN [list EXCEPT ![i] = list[i + 1], ![i + 1] = list[i]]
  ELSE list

BubblePass(list) ==
  LET after[i \in 0..(Len(list) - 1)] ==
        IF i = 0 THEN list ELSE BubbleStep(after[i - 1], i)
  IN  after[Len(list) - 1]

(* Passes until one changes nothing: never more than there are segments.   *)
stableSort(list) ==
  LET after[n \in 0..Len(list)] ==
        IF n = 0 THEN list ELSE BubblePass(after[n - 1])
  IN  after[Len(list)]

(* The value of count once the loop has passed line[j].                    *)
LabelChanges(line, j) == Cardinality({k \in 2..j : line[k].l # line[k - 1].l})

process(r) ==
  LET line == stableSort(Data[r]) IN
    [line  |-> line,
     color |-> [sign \in Labels(line) |->
                  LabelChanges(line, Max({k \in DOMAIN line : line[k].l = sign}))],
     total |-> LabelChanges(line, Len(line)) + 1]

-----------------------------------------------------------------------------
(* findNextSegmentIndex: from the segment that lasts at the current time,  *)
(* on around the row to one with the label.  Without one the loop does not *)
(* end.                                                                    *)

SearchIndex(line, now) == Cardinality({k \in DOMAIN line : line[k].f < now})

(* Mutant: the loop goes on before it looks at the first segment.          *)
SegmentAfterTheFirst(line, now, n) ==
  line[((SearchIndex(line, now) + n + 1) % Len(line)) + 1]

SegmentAfter(line, now, n) == line[((SearchIndex(line, now) + n) % Len(line)) + 1]

(* Mutant: the loop does not go on from the start of the row.              *)
StepsToLabelForward(line, now, sign) ==
  {n \in 0..(Len(line) - 1) :
     /\ SearchIndex(line, now) + n < Len(line)
     /\ SegmentAfter(line, now, n).l = sign}

StepsToLabel(line, now, sign) ==
  {n \in 0..(Len(line) - 1) : SegmentAfter(line, now, n).l = sign}

findNextSegment(line, now, sign) ==
  SegmentAfter(line, now, Min(StepsToLabel(line, now, sign)))

-----------------------------------------------------------------------------
(* The handler that only follows the player, and the one play binds, which *)
(* holds the bounds and the label of a segment; its row is history.        *)

defaultPlay == [o |-> 0, f |-> 0, l |-> 0, row |-> NoRow]
IsDefault(h) == h.row = NoRow
Bound(seg, r) == [o |-> seg.o, f |-> seg.f, l |-> seg.l, row |-> r]

Init ==
  /\ ready = FALSE
  /\ intervals = <<>>
  /\ playInterval = 0
  /\ handler = defaultPlay
  /\ time = 0
  /\ playing = FALSE
  /\ playbackTime = 0
  /\ selection = NoRow
  /\ drawn = NoRow
  /\ table = NoRow
  /\ next = FALSE
  /\ repeat = FALSE
  /\ thrown = FALSE
  /\ hung = FALSE

(* The ready event of the jPlayer.                                         *)
PlayerReady ==
  /\ ~hung
  /\ ~ready
  /\ ready' = TRUE
  /\ UNCHANGED <<intervals, playInterval, player, playbackTime, choice, drawn,
                 boxes, hung>>

CheckNext ==
  /\ ~hung
  /\ next' = ~next
  /\ UNCHANGED <<ready, intervals, playInterval, player, playbackTime, choice,
                 drawn, repeat, hung>>

CheckRepeat ==
  /\ ~hung
  /\ repeat' = ~repeat
  /\ UNCHANGED <<ready, intervals, playInterval, player, playbackTime, choice,
                 drawn, next, hung>>

-----------------------------------------------------------------------------
(* play: once the jPlayer is ready it clears the interval made last, seeks *)
(* to the start of the segment and binds a new handler.  timer is what is  *)
(* left of the intervals before that.                                      *)

StartPlayer(seg, r) ==
  /\ handler' = Bound(seg, r)
  /\ time' = seg.o
  /\ playing' = TRUE
  /\ thrown' = FALSE

Cleared(live) ==
  IF \E m \in DOMAIN live : live[m].id = playInterval
  THEN RemoveAt(live, CHOOSE m \in DOMAIN live : live[m].id = playInterval)
  ELSE live

Play(seg, r, live) ==
  /\ playbackTime' = seg.o + 1
  /\ IF ready
     THEN intervals' = Cleared(live) /\ StartPlayer(seg, r)
     ELSE intervals' = live /\ UNCHANGED player
  /\ UNCHANGED <<ready, playInterval, choice, drawn, boxes, hung>>

(* Mutant: an interval is registered again when it fires.                  *)
IntervalFiresTwice ==
  /\ ~hung
  /\ intervals # <<>>
  /\ LET i == Head(intervals) IN
       Play(Data[i.row][i.index], i.row, Append(intervals, i))

(* Intervals have the same period: they fire in turn, and one that is not  *)
(* cleared fires again after all the others.                               *)
IntervalFires ==
  /\ ~hung
  /\ intervals # <<>>
  /\ LET i == Head(intervals) IN
       Play(Data[i.row][i.index], i.row, Append(Tail(intervals), i))

(* A button of the list: the global play is the one plot returned.         *)
PressSegment ==
  /\ ~hung
  /\ table # NoRow
  /\ \E k \in DOMAIN Data[table] :
       Play(process(table).line[k], table, intervals)

-----------------------------------------------------------------------------
(* The double click on a segment.                                          *)

IsPlayingIn(r, k) ==
  /\ Data[r][k].o <= playbackTime
  /\ Data[r][k].f >= playbackTime
  /\ selection = r

(* handleSelect: the interval made before is not cleared, whether it has   *)
(* fired or not.  The plot is rendered before the selection is set.        *)
Select(r, k) ==
  /\ ~hung
  /\ ~IsPlayingIn(r, k)
  /\ playInterval < MaxChoices
  /\ playInterval' = playInterval + 1
  /\ intervals' = Append(intervals, [id |-> playInterval', row |-> r, index |-> k])
  /\ selection' = r
  /\ drawn' = selection
  /\ table' = r
  /\ UNCHANGED <<ready, player, playbackTime, boxes, hung>>

(* handleDeselect: the interval is not cleared either.                     *)
Deselect(r, k) ==
  /\ ~hung
  /\ IsPlayingIn(r, k)
  /\ handler' = defaultPlay
  /\ thrown' = FALSE
  /\ time' = 0
  /\ playing' = FALSE
  /\ selection' = NoRow
  /\ drawn' = selection
  /\ UNCHANGED <<ready, intervals, playInterval, playbackTime, table, boxes, hung>>

DoubleClick ==
  \E r \in Row : \E k \in DOMAIN Data[r] : Select(r, k) \/ Deselect(r, k)

(* The visible region is dragged: the plot is rendered.                    *)
Drag ==
  /\ ~hung
  /\ drawn' = selection
  /\ UNCHANGED <<ready, intervals, playInterval, player, playbackTime, choice,
                 boxes, hung>>

-----------------------------------------------------------------------------
(* The buttons of the jPlayer.                                             *)

PressPlay ==
  /\ ~hung
  /\ ready
  /\ playing' = TRUE
  /\ UNCHANGED <<ready, intervals, playInterval, handler, time, thrown,
                 playbackTime, choice, drawn, boxes, hung>>

PressPause ==
  /\ ~hung
  /\ playing' = FALSE
  /\ UNCHANGED <<ready, intervals, playInterval, handler, time, thrown,
                 playbackTime, choice, drawn, boxes, hung>>

PressStop ==
  /\ ~hung
  /\ playing' = FALSE
  /\ time' = 0
  /\ UNCHANGED <<ready, intervals, playInterval, handler, thrown,
                 playbackTime, choice, drawn, boxes, hung>>

-----------------------------------------------------------------------------
(* timeupdate events: the player announces a time, a tick later when it    *)
(* plays, and the bound handler runs.                                      *)

Announces(now) ==
  /\ ~hung
  /\ now = time \/ (playing /\ now = time + 1)
  /\ playbackTime' = now
  /\ UNCHANGED <<ready, intervals, playInterval, choice, boxes>>

(* Before the end of the segment, and always for defaultPlay.              *)
Follow ==
  \E now \in 0..AudioLength :
    /\ Announces(now)
    /\ IsDefault(handler) \/ now <= handler.f
    /\ time' = now
    /\ drawn' = selection
    /\ UNCHANGED <<handler, playing, thrown, hung>>

PastTheEnd(now) == ~IsDefault(handler) /\ now > handler.f

(* Without a row data[-1] is undefined: the handler ends with an exception *)
(* and the player goes on.                                                 *)
NoRowToSearch ==
  \E now \in 0..AudioLength :
    /\ Announces(now)
    /\ PastTheEnd(now)
    /\ next
    /\ drawn = NoRow
    /\ time' = now
    /\ thrown' = TRUE
    /\ UNCHANGED <<handler, playing, drawn, hung>>

NoLabelToFind ==
  \E now \in 0..AudioLength :
    /\ Announces(now)
    /\ PastTheEnd(now)
    /\ next
    /\ drawn # NoRow
    /\ StepsToLabel(Data[drawn], now, handler.l) = {}
    /\ time' = now
    /\ hung' = TRUE
    /\ UNCHANGED <<handler, playing, thrown, drawn>>

(* Whether a segment found is played: without repeat only a later one.     *)
Continues(seg, now) == repeat \/ seg.f > now

(* Mutant: endTime keeps the end of the segment before.                    *)
PlayNextOldEnd ==
  \E now \in 0..AudioLength :
    /\ Announces(now)
    /\ PastTheEnd(now)
    /\ next
    /\ drawn # NoRow
    /\ StepsToLabel(Data[drawn], now, handler.l) # {}
    /\ LET seg == findNextSegment(Data[drawn], now, handler.l) IN
         /\ Continues(seg, now)
         /\ handler' = [Bound(seg, drawn) EXCEPT !.l = handler.l, !.f = handler.f]
         /\ time' = seg.o
    /\ playing' = TRUE
    /\ UNCHANGED <<thrown, drawn, hung>>

PlayNext ==
  \E now \in 0..AudioLength :
    /\ Announces(now)
    /\ PastTheEnd(now)
    /\ next
    /\ drawn # NoRow
    /\ StepsToLabel(Data[drawn], now, handler.l) # {}
    /\ LET seg == findNextSegment(Data[drawn], now, handler.l) IN
         /\ Continues(seg, now)
         /\ handler' = [Bound(seg, drawn) EXCEPT !.l = handler.l]
         /\ time' = seg.o
    /\ playing' = TRUE
    /\ UNCHANGED <<thrown, drawn, hung>>

PlayAgain ==
  \E now \in 0..AudioLength :
    /\ Announces(now)
    /\ PastTheEnd(now)
    /\ ~next
    /\ repeat
    /\ time' = handler.o
    /\ playing' = TRUE
    /\ UNCHANGED <<handler, thrown, drawn, hung>>

(* Nothing more to play: back to the start of the segment.                 *)
Rest ==
  \E now \in 0..AudioLength :
    /\ Announces(now)
    /\ PastTheEnd(now)
    /\ ~repeat
    /\ next => /\ drawn # NoRow
               /\ StepsToLabel(Data[drawn], now, handler.l) # {}
               /\ ~Continues(findNextSegment(Data[drawn], now, handler.l), now)
    /\ time' = handler.o
    /\ playing' = FALSE
    /\ drawn' = selection
    /\ UNCHANGED <<handler, thrown, hung>>

TimeUpdate ==
  Follow \/ NoRowToSearch \/ NoLabelToFind \/ PlayNext \/ PlayAgain \/ Rest

(* The recording is over: the jPlayer goes back to its start.              *)
Ended ==
  /\ ~hung
  /\ playing
  /\ time = AudioLength
  /\ time' = 0
  /\ playing' = FALSE
  /\ UNCHANGED <<ready, intervals, playInterval, handler, thrown,
                 playbackTime, choice, drawn, boxes, hung>>

-----------------------------------------------------------------------------
Next ==
  \/ PlayerReady
  \/ CheckNext
  \/ CheckRepeat
  \/ IntervalFires
  \/ PressSegment
  \/ DoubleClick
  \/ Drag
  \/ PressPlay
  \/ PressPause
  \/ PressStop
  \/ TimeUpdate
  \/ Ended

Spec == Init /\ [][Next]_vars

-----------------------------------------------------------------------------
(* The state is well formed: an interval is live at most once, and only    *)
(* choices that were made have one.                                        *)
TypeOK ==
  /\ ready \in BOOLEAN /\ playing \in BOOLEAN /\ next \in BOOLEAN
  /\ repeat \in BOOLEAN /\ thrown \in BOOLEAN /\ hung \in BOOLEAN
  /\ playInterval \in 0..MaxChoices
  /\ intervals \in Seq([id : 1..playInterval, row : Row, index : Nat])
  /\ \A m, n \in DOMAIN intervals : m # n => intervals[m].id # intervals[n].id
  /\ \A m \in DOMAIN intervals : intervals[m].index \in DOMAIN Data[intervals[m].row]
  /\ handler \in [o : Nat, f : Nat, l : Nat, row : Row \cup {NoRow}]
  /\ time \in 0..AudioLength /\ playbackTime \in 0..AudioLength
  /\ selection \in Row \cup {NoRow} /\ drawn \in Row \cup {NoRow}
  /\ table \in Row \cup {NoRow}

(* The search for a similar segment hangs the page only when the plot      *)
(* shows another row as selected than the one whose segment is played: a   *)
(* row that was chosen meanwhile and has no such label.                    *)
HangsOnAnotherRow ==
  hung => /\ drawn # handler.row
          /\ handler.l \notin Labels(Data[drawn])

(* The player is never heard beyond the end of the segment it was started  *)
(* for, unless the end was reached with no row selected and "next" checked *)
(* (the handler has thrown then) or the page hangs.                        *)
StaysInTheSegment ==
  ~IsDefault(handler) /\ ~thrown /\ ~hung => time <= handler.f

(* The list of a row is a stable sort of its segments by label: p says     *)
(* where in the row a segment of the list comes from.  Each label has a    *)
(* colour of its own among total ones.                                     *)
IsStableSort(list, line) ==
  \E p \in [DOMAIN list -> DOMAIN list] :
    /\ IsInjective(p)
    /\ line = [k \in DOMAIN list |-> list[p[k]]]
    /\ \A j, k \in DOMAIN list :
         j < k => \/ line[j].l < line[k].l
                  \/ line[j].l = line[k].l /\ p[j] < p[k]

IsInOrder(stat, line) ==
  /\ IsStableSort(line, stat.line)
  /\ DOMAIN stat.color = Labels(line)
  /\ IsInjective(stat.color)
  /\ \A sign \in DOMAIN stat.color : stat.color[sign] \in 0..(stat.total - 1)
  /\ stat.total = Cardinality(Labels(line))

RowsInOrder == {r \in Row : IsInOrder(process(r), Data[r])}
ListIsInOrder == table # NoRow => table \in RowsInOrder

(* With "next" checked, the end of a segment leads to the segment of the    *)
(* selected row with the same label that ends next, or else first: none is *)
(* skipped or played again on the way.  The player rests only when that    *)
(* segment is over too.                                                    *)
Similar == {k \in DOMAIN Data[drawn] : Data[drawn][k].l = handler.l}
Later(now) == {k \in Similar : Data[drawn][k].f >= now}
EndsNext(k, now) ==
  LET candidates == IF Later(now) = {} THEN Similar ELSE Later(now) IN
    k \in candidates /\ \A j \in candidates : Data[drawn][k].f <= Data[drawn][j].f

NextSimilarIsPlayed ==
  [][/\ PlayNext =>
          \E k \in DOMAIN Data[drawn] :
            /\ EndsNext(k, playbackTime')
            /\ handler'.o = Data[drawn][k].o /\ handler'.f = Data[drawn][k].f
     /\ Rest /\ next =>
          \E k \in DOMAIN Data[drawn] :
            /\ EndsNext(k, playbackTime')
            /\ Data[drawn][k].f <= playbackTime']_vars

=============================================================================

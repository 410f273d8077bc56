---------------------------- MODULE MCScheduleRun ----------------------------
(* Instances of ScheduleRun for TLC: sound files, and files that differ from a  *)
(* sound one in a field of one record, a field of the header, or both.          *)
EXTENDS ScheduleRun

MCKeycodes == {"a", "esc", "end", "del"}
MCCleanup ==
  <<[modifier |-> {}, keycode |-> "esc"], [modifier |-> {"ctrl", "shift"}, keycode |-> "end"],
    [modifier |-> {}, keycode |-> "del"]>>

Typing(before, after, source, class) ==
  [fixed |-> TRUE, before |-> before, hold |-> HoldUs, after |-> after, source |-> source,
   modifier |-> {"shift"}, keycode |-> "a", flags |-> {class, "release"}]

Cleaning(k, source) ==
  [fixed |-> TRUE, before |-> 0, hold |-> HoldUs, after |-> 0, source |-> source,
   modifier |-> MCCleanup[k].modifier, keycode |-> MCCleanup[k].keycode,
   flags |-> {"technical", "cleanup", "release"}]

CleaningAfter(source) == [k \in 1 .. 3 |-> Cleaning(k, source)]

Sound == {CleaningAfter(0),
          <<Typing(3, 5, 1, "source")>> \o CleaningAfter(1),
          <<Typing(MaxDelay, 0, 0, "technical")>> \o CleaningAfter(2),
          <<Typing(0, 1, 1, "technical"), Typing(1, 0, 2, "source")>> \o CleaningAfter(2),
          [k \in 1 .. 3 |-> Typing(0, k, k - 1, "technical")] \o CleaningAfter(2)}

\* One field of a record gets another value.
Changes(r) ==
  {r, [r EXCEPT !.fixed = FALSE], [r EXCEPT !.hold = HoldUs - 1],
   [r EXCEPT !.before = MaxDelay, !.after = MaxDelay], [r EXCEPT !.before = MaxDelay + 1],
   [r EXCEPT !.after = MaxDelay + 1],
   [r EXCEPT !.source = 0], [r EXCEPT !.source = 1], [r EXCEPT !.source = 3],
   [r EXCEPT !.modifier = {"alt"}], [r EXCEPT !.modifier = {}],
   [r EXCEPT !.keycode = "none"], [r EXCEPT !.keycode = "a"]}
  \union {[r EXCEPT !.flags = flags] :
            flags \in {{"source"}, {"release"}, {"source", "technical", "release"},
                       {"source", "cleanup", "release"}, {"technical", "release"},
                       {"technical", "cleanup", "release", "unknown"}}}

Altered(records) ==
  UNION {{[records EXCEPT ![k] = r] : r \in Changes(records[k])} : k \in DOMAIN records}

Header(records) ==
  [fixed |-> TRUE, count |-> Len(records),
   payload |-> (Len(records) * RecordBytes) % (U32Max + 1), characters |-> 2,
   duration |-> Sum(records, Len(records)) % (U64Max + 1), job |-> TRUE]

File(records, header, extra) ==
  [size |-> HeaderBytes + Len(records) * RecordBytes + extra, records |-> records,
   header |-> header, digest |-> TRUE]

Files(records) ==
  LET header == Header(records) file == File(records, header, 0) IN
  {file, [file EXCEPT !.digest = FALSE], [file EXCEPT !.size = HeaderBytes - 1]}
    \union {File(records, header, extra) : extra \in {-1, 1}}
    \union {File(records, changed, 0) : changed \in
        {[header EXCEPT !.fixed = FALSE], [header EXCEPT !.job = FALSE],
         [header EXCEPT !.characters = 0], [header EXCEPT !.count = 0],
         [header EXCEPT !.count = @ - 1, !.payload = (header.count - 1) * RecordBytes],
         [header EXCEPT !.count = @ + 1],
         [header EXCEPT !.duration = IF @ = 0 THEN 1 ELSE @ - 1]}}
    \union {File(SubSeq(records, 1, 2), Header(SubSeq(records, 1, 2)), 0),
            File(SubSeq(records, 1, 0), Header(SubSeq(records, 1, 0)), 0)}

MCImages == UNION {Files(records) : records \in UNION {Altered(sound) : sound \in Sound}}
=============================================================================

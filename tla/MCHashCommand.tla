---------------------------- MODULE MCHashCommand ---------------------------
EXTENDS HashCommand, TLC

(* Numbers that strtoull reads, and what it reads.                         *)
MCNumbers == [s \in {"0", "1", "2", "20", "21", "300"} |->
                CASE s = "0" -> 0 [] s = "1" -> 1 [] s = "2" -> 2 [] s = "20" -> 20
                  [] s = "21" -> 21 [] s = "300" -> 300]

Long(name, value) ==
  [kind |-> "long", name |-> name, value |-> value, text |-> IF value = NoValue THEN name ELSE value]
Short(letters, value) == [kind |-> "short", letters |-> letters, value |-> value, text |-> "-"]
Word(text) == [kind |-> "word", text |-> text]
EndMark == [kind |-> "end", text |-> "--"]

MCTokens ==
  {Long("segments", "2"), Long("segments", NoValue), Short(<<"s">>, "1"), Short(<<"v", "s">>, "21"),
   Short(<<"v", "t">>, NoValue), Long("threads", "300"), Long("threads", "0"), Long("cache", NoValue),
   Long("cache", "no"), Long("verbose", "2"), Short(<<"v", "v", "v">>, NoValue), Long("format", "json"),
   Long("print-hashes", NoValue), Long("detect-bars", "no"), Long("skip-duration", "0"),
   Long("help", NoValue), Long("dry-run", NoValue), Long("thresh", "1"), Word("1"), EndMark}

(* The vectors that are followed by the hashing of every kind of file.     *)
HashVectors ==
  {<<>>, <<Long("segments", "2"), Long("skip-duration", "0")>>, <<Long("detect-bars", "no"), Word("1")>>,
   <<Short(<<"s">>, "1"), Long("skip-duration", "0")>>}

MCCoreCounts == {-1, 2, 256}

Plain(h, w) == [y \in 0 .. (h - 1) |-> [x \in 0 .. (w - 1) |-> 25]]
Black == [y \in 0 .. 0 |-> [x \in 0 .. 1 |-> 24]]

Skipped ==
  [has_stream |-> TRUE, duration |-> 0, container |-> 0, tick |-> 1, pts |-> <<>>, keys |-> {},
   delay |-> 0, rotation |-> 0, luma8 |-> TRUE, pictures |-> <<>>, dct |-> <<>>]

(* A video of plain frames, of which some are black.                       *)
Video(duration, tick, pts, keys, delay, black) ==
  [Skipped EXCEPT !.duration = duration, !.tick = tick, !.pts = pts, !.keys = keys, !.delay = delay,
                  !.pictures = [n \in DOMAIN pts |-> IF n \in black THEN Black ELSE Plain(1, 2)],
                  !.dct = [n \in DOMAIN pts |-> <<9, 0, 0, 2>>]]

Streams ==
  {Video(32, 1, <<0, 4, 8, 12, 16, 20, 24, 28>>, {1, 3, 6}, 1, {4}), (* even *)
   Video(16, 2, <<0, 9, 13, 14>>, {1, 4}, 1, {}),                    (* frames missing *)
   Video(16, 1, <<2, 3, 15>>, {1}, 0, {1}),                          (* a late start, too few frames *)
   Video(5, 6, <<1, 2, 4>>, {1, 2, 3}, 2, {}),                       (* a coarse time base *)
   [Video(NoDuration, 1, <<0, 6, 11>>, {1, 2}, 1, {}) EXCEPT !.container = 18],
   [Video(20, 1, <<0, 6, 11, 17>>, {1, 3}, 0, {3}) EXCEPT !.rotation = -90, !.luma8 = FALSE],
   [Video(20, 1, <<0, 6, 11>>, {1, 3}, 0, {}) EXCEPT !.rotation = 45],
   Video(16, 1, <<>>, {}, 0, {}),
   Video(3, 1, <<0, 1, 2>>, {1}, 0, {}),
   [Skipped EXCEPT !.has_stream = FALSE], Skipped}

OneFrame == Video(8, 1, <<5>>, {1}, 0, {})

(* Every small picture, also turned, and every short array of coefficients. *)
PictureVideos ==
  {[OneFrame EXCEPT !.pictures = <<p>>, !.rotation = r] :
     p \in [0 .. 1 -> [0 .. 2 -> {24, 25}]] \cup [0 .. 0 -> [0 .. 3 -> {0, 255}]], r \in {0, 90, 180, -90}}
DctVideos == {[OneFrame EXCEPT !.dct = << <<7>> \o c >>] : c \in [1 .. 5 -> 0 .. 2]}

MCVideos == Streams \cup PictureVideos \cup DctVideos

(* Every vector of arguments for a file that is skipped; a few of them for *)
(* every stream; and one segment without a smallest duration for the rest. *)
MCInit ==
  /\ VideoInit
  /\ \/ video = Skipped /\ cores \in CoreCounts /\ \E n \in 0 .. MaxArguments : argv \in [1 .. n -> Tokens]
     \/ video \in Streams /\ cores = 2 /\ argv \in HashVectors
     \/ /\ video \notin Streams /\ cores = 2
        /\ argv = <<Short(<<"s">>, "1"), Long("skip-duration", "0")>>
  /\ CliInit

MCSpec == MCInit /\ [][Next]_vars /\ WF_vars(Program)
=============================================================================

------------------------------ MODULE VideoHash -----------------------------
(***************************************************************************)
(* ak_video_hash of video.c: open a file with libav, and for each segment  *)
(* seek, decode forward to the segment's frame, turn it, crop its black    *)
(* bars, scale it and hash it.                                             *)
(*                                                                         *)
(* libav is external.  Its demuxer, after a backward seek, continues from  *)
(* some keyframe at or before the target; its decoder holds back up to     *)
(* video.delay frames until it is drained; each of its calls may fail, and *)
(* may end with AVERROR_EXIT once the shutdown is requested.  A frame is   *)
(* known by its number in the order of presentation, and times count in    *)
(* units of which Second make a second.                                    *)
(***************************************************************************)
EXTENDS FrameHash

CONSTANTS Videos,     (* the files, see VideosAssumption                     *)
          Second,     (* units of time per second                            *)
          Alignment,  (* columns libav aligns a cropped picture to           *)
          MaxFaults,  (* bound: failing calls of libav in a behaviour        *)
          NDEBUG      (* whether the build leaves assertions out             *)

(* video.c:150, AV_NOPTS_VALUE: no duration in the stream.                 *)
NoDuration == -1

ASSUME UnitsAssumption ==
  Second \in Nat \ {0} /\ Alignment \in Nat \ {0} /\ MaxFaults \in Nat /\ NDEBUG \in BOOLEAN

(* A video: whether libav finds a video stream and a decoder; the duration *)
(* in ticks of the stream, that of the container in units, the units of a  *)
(* tick; the presentation times of the frames the decoder produces, which  *)
(* of them are keyframes, and how many it holds back; the rotation of the  *)
(* display matrix; whether the pixels have 8 bits of luma in plane 0; the  *)
(* luma of each frame, and its coefficients.                               *)
ASSUME VideosAssumption ==
  \A v \in Videos :
    /\ v.has_stream \in BOOLEAN
    /\ v.duration \in Int /\ v.container \in Int /\ v.tick \in Nat \ {0}
    /\ v.pts \in Seq(Nat) /\ \A m, n \in DOMAIN v.pts : m < n => v.pts[m] < v.pts[n]
    /\ v.keys \subseteq DOMAIN v.pts /\ v.delay \in Nat
    /\ v.rotation \in -180 .. 180 /\ v.luma8 \in BOOLEAN
    /\ \A n \in DOMAIN v.pts :
         IsPicture(v.pictures[n]) /\ v.dct[n] \in Seq(Int) /\ Len(v.dct[n]) > 1

VARIABLES video,     (* the file                                             *)
          options,   (* the fields of ak_config that are read                *)
          step,      (* where ak_video_hash is                               *)
          segment,   (* i                                                    *)
          last_pts,  (* last_pts_streambase                                  *)
          position,  (* the next frame the demuxer delivers                  *)
          held,      (* the frames in the decoder                            *)
          draining,  (* the decoder has been told that no packet follows     *)
          fctx_init, (* the filter graph is set up                           *)
          frame,     (* proc: vr.frame, or the clone of the grey frame       *)
          grey_frame, (* vr.grey_frame, which outlives the segment           *)
          matrix,    (* what the pixels in the matrix are of                 *)
          entries,   (* entries_out                                          *)
          decoded,   (* frames_decoded                                       *)
          result,    (* the status returned                                  *)
          shutdown,  (* the shutdown is requested                            *)
          errors     (* observed only: the errors libav returned             *)

readerVars == <<position, held, draining>>
loopVars == <<segment, last_pts, fctx_init, frame, grey_frame, matrix, entries, decoded>>
videoVars == <<video, options, step, readerVars, loopVars, result, shutdown, errors>>

-----------------------------------------------------------------------------
(***************************************************************************)
(* The reader                                                              *)
(***************************************************************************)

(* A frame's number, the angle it was turned by, the part that is kept of  *)
(* it, and whether its plane 0 has 8 bits of luma (luma_is_u8_plane0).     *)
(* NoFrame stands for a matrix of zeros too.                               *)
NoFrame == [n |-> 0, angle |-> 0, luma |-> TRUE,
            kept |-> [left |-> 0, top |-> 0, right |-> -1, bottom |-> -1]]
Failed == [of |-> NoFrame, bits |-> <<>>, timestamp |-> 0]
Unwritten == [of |-> NoFrame, bits |-> <<>>, timestamp |-> -1]
IsHashed(entry) == entry.of.n > 0

normalise_angle_360(angle) == (angle + 360) % 360
Angle == normalise_angle_360(video.rotation)

Picture(f) == Turned(video.pictures[f.n], f.angle)

Positive(n) == IF n > 0 THEN n ELSE 0

vreader_get_duration ==
  IF video.duration = NoDuration THEN Positive(video.container)
                                 ELSE Positive(video.duration) * video.tick

Options == [segments : Nat \ {0}, skip_duration : Nat, bars : BOOLEAN]

VideoInit ==
  /\ video \in Videos
  /\ options = [segments |-> 1, skip_duration |-> 0, bars |-> TRUE]
  /\ step = "idle"
  /\ segment = 0
  /\ last_pts = -1
  /\ position = 1
  /\ held = <<>>
  /\ draining = FALSE
  /\ fctx_init = FALSE
  /\ frame = NoFrame
  /\ grey_frame = NoFrame
  /\ matrix = NoFrame
  /\ entries = <<>>
  /\ decoded = 0
  /\ result = "none"
  /\ shutdown = FALSE
  /\ errors = <<>>

(* ak_video_hash is called, with a slice of entries to fill.               *)
ak_video_hash(opts) ==
  /\ step = "idle"
  /\ options' = opts
  /\ entries' = [i \in 0 .. (opts.segments - 1) |-> Unwritten]
  /\ step' = "open"
  /\ UNCHANGED <<video, readerVars, segment, last_pts, fctx_init, frame, grey_frame, matrix, decoded,
                 result, shutdown, errors>>

Goto(next) ==
  /\ step' = next
  /\ UNCHANGED <<video, options, readerVars, loopVars, result, shutdown, errors>>

(* vreader_init, call by call.  When no stream is found it returns the     *)
(* status of avformat_find_stream_info, which is success.                  *)
AfterReaderStep ==
  [open   |-> "probe",
   probe  |-> "stream",
   stream |-> IF video.has_stream THEN "codec" ELSE "duration",
   codec  |-> "duration"]

vreader_init == step \in DOMAIN AfterReaderStep /\ Goto(AfterReaderStep[step])

(* streams[-1]: nothing is claimed of the program after it.                *)
ReadMissingStream == step = "duration" /\ ~video.has_stream /\ Goto("undefined")

Ends(status) ==
  /\ step' = "done"
  /\ result' = status
  /\ UNCHANGED <<video, options, readerVars, loopVars, shutdown>>

TooShort ==
  \/ vreader_get_duration = 0
  \/ vreader_get_duration <= options.skip_duration * Second
  \/ vreader_get_duration < options.segments * Second

CheckDuration ==
  /\ step = "duration"
  /\ video.has_stream
  /\ IF TooShort THEN Ends("AK_SKIP_SHORT_DURATION") /\ UNCHANGED errors ELSE Goto("seek")

-----------------------------------------------------------------------------
(***************************************************************************)
(* One segment                                                             *)
(***************************************************************************)

(* The middle of segment i, rounded to ticks as av_rescale_q rounds.       *)
Target(i) ==
  LET frame_step == vreader_get_duration \div options.segments
      seek_target == i * frame_step + frame_step \div 2
  IN (2 * seek_target + video.tick) \div (2 * video.tick)

SegmentFails ==
  /\ entries' = [entries EXCEPT ![segment] = Failed]
  /\ segment' = segment + 1
  /\ step' = "seek"
  /\ UNCHANGED <<video, options, readerVars, last_pts, fctx_init, frame, grey_frame, matrix, decoded,
                 result, shutdown>>

(* Where a backward seek may land: a keyframe at or before the target, or  *)
(* the beginning of a file that has none there.                            *)
Landings(target) ==
  LET keys == {k \in video.keys : video.pts[k] <= target} IN IF keys = {} THEN {1} ELSE keys

(* Mutant: without AVSEEK_FLAG_BACKWARD, the next keyframe.                *)
SeekForward ==
  /\ step = "seek"
  /\ segment < options.segments
  /\ position' \in {k \in video.keys : video.pts[k] >= Target(segment)} \cup {Len(video.pts) + 1}
  /\ held' = <<>>
  /\ draining' = FALSE
  /\ step' = "decode"
  /\ UNCHANGED <<video, options, loopVars, result, shutdown, errors>>

(* av_seek_frame succeeds; the decoder forgets its frames and no longer    *)
(* drains.                                                                 *)
Seek ==
  /\ step = "seek"
  /\ segment < options.segments
  /\ position' \in Landings(Target(segment))
  /\ held' = <<>>
  /\ draining' = FALSE
  /\ step' = "decode"
  /\ UNCHANGED <<video, options, loopVars, result, shutdown, errors>>

FrameReady == Len(held) > video.delay \/ (draining /\ held # <<>>)
MoreFrames == position <= Len(video.pts)

(* Mutant: a frame that was hashed before is taken again.                  *)
IsAtTarget(n) == video.pts[n] >= Target(segment)

IsWanted(n) == video.pts[n] >= Target(segment) /\ video.pts[n] > last_pts

(* avcodec_receive_frame has a frame: vreader_seek_decode_to_target keeps  *)
(* or drops it.                                                            *)
Receive ==
  /\ step = "decode"
  /\ FrameReady
  /\ held' = Tail(held)
  /\ LET n == Head(held)
     IN IF IsWanted(n)
          THEN /\ frame' = [n |-> n, angle |-> 0, luma |-> video.luma8, kept |-> WholeOf(video.pictures[n])]
               /\ last_pts' = video.pts[n]
               /\ step' = "rotate"
          ELSE UNCHANGED <<frame, last_pts, step>>
  /\ UNCHANGED <<video, options, position, draining, segment, fctx_init, grey_frame, matrix, entries,
                 decoded, result, shutdown, errors>>

(* It has none (EAGAIN): a packet is read and sent.                        *)
ReadPacket ==
  /\ step = "decode"
  /\ ~FrameReady /\ ~draining /\ MoreFrames
  /\ held' = Append(held, position)
  /\ position' = position + 1
  /\ UNCHANGED <<video, options, step, draining, loopVars, result, shutdown, errors>>

(* Mutant: the decoder is not told.                                        *)
ReadEndAgain ==
  /\ step = "decode"
  /\ ~FrameReady /\ ~draining /\ ~MoreFrames
  /\ UNCHANGED videoVars

(* Nothing is left to read: the decoder is told to drain.                  *)
ReadEnd ==
  /\ step = "decode"
  /\ ~FrameReady /\ ~draining /\ ~MoreFrames
  /\ draining' = TRUE
  /\ UNCHANGED <<video, options, step, position, held, loopVars, result, shutdown, errors>>

(* The decoder is drained (AVERROR_EOF).                                   *)
EndOfFile ==
  /\ step = "decode"
  /\ ~FrameReady /\ draining
  /\ SegmentFails
  /\ UNCHANGED errors

AfterRotation == IF options.bars THEN "grey" ELSE "scale"
RightAngles == {90, 180, 270}

(* init_rotation_filter_graph, for the first frame that needs it.  Its     *)
(* assertion is about the metadata of the file.                            *)
SetUpRotation ==
  /\ step = "rotate"
  /\ \/ Angle = 0 /\ Goto(AfterRotation)
     \/ fctx_init /\ Goto("filter")
     \/ /\ Angle \in RightAngles /\ ~fctx_init
        /\ fctx_init' = TRUE
        /\ step' = "filter"
        /\ UNCHANGED <<video, options, readerVars, segment, last_pts, frame, grey_frame, matrix, entries,
                       decoded, result, shutdown, errors>>
     \/ /\ Angle \notin RightAngles \cup {0}
        /\ IF NDEBUG THEN SegmentFails /\ UNCHANGED errors ELSE Goto("aborted")

SetFrame(f, next) ==
  /\ frame' = f
  /\ step' = next
  /\ UNCHANGED <<video, options, readerVars, segment, last_pts, fctx_init, grey_frame, matrix, entries,
                 decoded, result, shutdown, errors>>

Rotate ==
  /\ step = "filter"
  /\ SetFrame([n |-> frame.n, angle |-> Angle, luma |-> frame.luma,
               kept |-> WholeOf(Turned(video.pictures[frame.n], Angle))],
              AfterRotation)

(* normalise_frame_to_grey8 lends out a frame with 8 bits of luma as it is *)
(* ...                                                                     *)
BorrowFrame ==
  /\ step = "grey"
  /\ frame.luma
  /\ Goto("crop")

FillGrey(picture) ==
  /\ step = "grey"
  /\ ~frame.luma
  /\ grey_frame' = picture
  /\ step' = "clone"
  /\ UNCHANGED <<video, options, readerVars, segment, last_pts, fctx_init, frame, matrix, entries,
                 decoded, result, shutdown, errors>>

(* Mutant: a cached grey frame of the right size is taken for this one's.  *)
ConvertOnce ==
  FillGrey(IF grey_frame.kept = frame.kept THEN grey_frame ELSE [frame EXCEPT !.luma = TRUE])

(* ... converts any other into the cached grey frame (what a conversion    *)
(* that fails leaves there is converted again before it is read) ...       *)
ConvertToGrey == FillGrey([frame EXCEPT !.luma = TRUE])

(* ... and hands out a clone of that.                                      *)
CloneGrey ==
  /\ step = "clone"
  /\ SetFrame(grey_frame, "crop")

(* When sws_scale brings no row, 0 is returned as if it had succeeded, and *)
(* the frame goes on as it is.                                             *)
ScaleNothing ==
  /\ step = "grey"
  /\ ~frame.luma
  /\ Len(errors) < MaxFaults
  /\ errors' = Append(errors, [kind |-> "NOTHING", at |-> step])
  /\ step' = "crop"
  /\ UNCHANGED <<video, options, readerVars, loopVars, result, shutdown>>

normalise_frame_to_grey8 == BorrowFrame \/ ConvertToGrey \/ CloneGrey

Parts(picture) ==
  {part \in [left : Columns(picture), right : Columns(picture), top : Rows(picture), bottom : Rows(picture)] :
     part.left <= part.right /\ part.top <= part.bottom}

(* The borders are looked for in plane 0: what is found in the bytes of    *)
(* another format can be anything.                                         *)
apply_crop ==
  /\ step = "crop"
  /\ \/ /\ frame.luma => IsBlack(Picture(frame))
        /\ SegmentFails
        /\ UNCHANGED errors
     \/ /\ frame.luma => ~IsBlack(Picture(frame))
        /\ \E kept \in IF frame.luma THEN {Cropped(Picture(frame), Alignment)} ELSE Parts(Picture(frame)) :
             SetFrame([frame EXCEPT !.kept = kept], "scale")

extract_scaled_matrix ==
  /\ step = "scale"
  /\ matrix' = frame
  /\ step' = "hash"
  /\ UNCHANGED <<video, options, readerVars, segment, last_pts, fctx_init, frame, grey_frame, entries,
                 decoded, result, shutdown, errors>>

Coefficients(f) == IF f.n = 0 THEN <<0, 0>> ELSE video.dct[f.n]

StoreHash ==
  /\ step = "hash"
  /\ entries' = [entries EXCEPT ![segment] =
                   [of |-> matrix, bits |-> dct_hash(Coefficients(matrix)),
                    timestamp |-> last_pts * video.tick]]
  /\ decoded' = decoded + 1
  /\ segment' = segment + 1
  /\ step' = "seek"
  /\ UNCHANGED <<video, options, readerVars, last_pts, fctx_init, frame, grey_frame, matrix, result,
                 shutdown, errors>>

(* Mutant: a file of which no frame was hashed is a success.               *)
SegmentsEndWell ==
  /\ step = "seek"
  /\ segment = options.segments
  /\ Ends("AK_OK")
  /\ UNCHANGED errors

SegmentsEnd ==
  /\ step = "seek"
  /\ segment = options.segments
  /\ Ends(IF decoded = 0 THEN "AK_IO_FAIL" ELSE "AK_OK")
  /\ UNCHANGED errors

-----------------------------------------------------------------------------
(***************************************************************************)
(* Failing calls and the shutdown                                          *)
(***************************************************************************)

(* Where a call of libav may fail.  The failure of av_find_best_stream is  *)
(* video.has_stream.                                                       *)
MayFail ==
  \/ step \in {"open", "probe", "codec", "decode", "filter", "clone", "scale"}
  \/ step = "seek" /\ segment < options.segments
  \/ step = "rotate" /\ Angle \in RightAngles /\ ~fctx_init
  \/ step = "grey" /\ ~frame.luma
  \/ /\ step = "crop"
     /\ frame.luma => /\ ~IsBlack(Picture(frame))
                      /\ detect_black_borders(Picture(frame)) # WholeOf(Picture(frame))

(* av_interrupt_cb: the calls that wait for input end with AVERROR_EXIT.   *)
MayBeInterrupted ==
  shutdown /\ (step \in {"open", "probe", "seek"} \/ (step = "decode" /\ ~FrameReady /\ ~draining))

(* Mutant: a frame that cannot be scaled is hashed all the same.           *)
OnErrorHash(kind) ==
  IF step = "scale" THEN step' = "hash" /\ UNCHANGED <<video, options, readerVars, loopVars, result, shutdown>>
  ELSE IF step \in DOMAIN AfterReaderStep THEN Ends("AK_IO_FAIL")
  ELSE SegmentFails

(* Mutant: an interrupted seek costs the segment.                          *)
OnErrorGoOn(kind) ==
  IF (kind = "ENOMEM" /\ step # "filter") \/ step = "clone" THEN Ends("AK_NO_MEM")
  ELSE IF step \in DOMAIN AfterReaderStep THEN Ends("AK_IO_FAIL")
  ELSE SegmentFails

(* What an error does, by kind and place: the reader gives up; the loop    *)
(* gives up without memory, except in the filter, when a frame cannot be   *)
(* cloned for whatever reason, and when interrupted; any other error costs *)
(* the segment.                                                            *)
OnError(kind) ==
  IF (kind = "ENOMEM" /\ step # "filter") \/ step = "clone" THEN Ends("AK_NO_MEM")
  ELSE IF kind = "EXIT" \/ step \in DOMAIN AfterReaderStep THEN Ends("AK_IO_FAIL")
  ELSE SegmentFails

LibavFails ==
  \E kind \in {"ERR", "ENOMEM", "EXIT"} :
    /\ MayFail
    /\ IF kind = "EXIT" THEN MayBeInterrupted ELSE Len(errors) < MaxFaults
    /\ errors' = Append(errors, [kind |-> kind, at |-> step])
    /\ OnError(kind)

RequestShutdown ==
  /\ step \notin {"idle", "done", "undefined", "aborted"}
  /\ ~shutdown
  /\ shutdown' = TRUE
  /\ UNCHANGED <<video, options, step, readerVars, loopVars, result, errors>>

HashStep ==
  \/ vreader_init \/ ReadMissingStream \/ CheckDuration
  \/ Seek \/ Receive \/ ReadPacket \/ ReadEnd \/ EndOfFile
  \/ SetUpRotation \/ Rotate \/ normalise_frame_to_grey8 \/ ScaleNothing \/ apply_crop
  \/ extract_scaled_matrix \/ StoreHash \/ SegmentsEnd \/ LibavFails

VideoNext ==
  \/ \E opts \in Options : ak_video_hash(opts)
  \/ HashStep
  \/ RequestShutdown

VideoSpec == VideoInit /\ [][VideoNext]_videoVars

-----------------------------------------------------------------------------
(***************************************************************************)
(* Properties                                                              *)
(***************************************************************************)

Segments == 0 .. (options.segments - 1)
Written == {i \in DOMAIN entries : entries[i] # Unwritten}
Hashed == {i \in DOMAIN entries : IsHashed(entries[i])}
ScaledNothing == \E k \in DOMAIN errors : errors[k].kind = "NOTHING"

(* A file is a success only if its whole slice is filled and at least one  *)
(* of the hashes is real (the callers store the slice in the cache and in  *)
(* the tree).  At any time, also of a file that is given up, nothing that  *)
(* was not written lies in front of a hash.                                *)
OkMeansHashed ==
  /\ result = "AK_OK" => Written = Segments /\ Hashed # {}
  /\ \A i \in Hashed : \A j \in Segments : j < i => j \in Written

(* The hashes of a file are of different frames, in the order of the       *)
(* segments, whatever fails between them: a video with fewer frames than   *)
(* segments does not match another by repeating one of them.               *)
TimestampsClimb ==
  \A i, j \in Hashed :
    i < j => video.pts[entries[i].of.n] < video.pts[entries[j].of.n]

(* The frame of segment i by definition: the first one at or after the     *)
(* target and after the frame of any segment before; 0 if there is none.   *)
FirstFrame(i, after) ==
  LET later == {n \in DOMAIN video.pts : video.pts[n] >= Target(i) /\ video.pts[n] > after}
  IN IF later = {} THEN 0 ELSE Least(later)

FrameOf ==
  LET after[i \in -1 .. (options.segments - 1)] ==
        IF i = -1 THEN -1
        ELSE LET n == FirstFrame(i, after[i - 1]) IN IF n = 0 THEN after[i - 1] ELSE video.pts[n]
  IN [i \in Segments |-> FirstFrame(i, after[i - 1])]

(* While libav does not fail, the frames that are hashed depend on the     *)
(* video and the options only: not on the keyframes, on where a seek       *)
(* lands, on the delay of the decoder or on what an earlier segment left   *)
(* in it.  A segment fails exactly when it has no frame, its frame is      *)
(* black, or it cannot be turned.                                          *)
SegmentsAreReproducible ==
  errors = <<>> =>
    \A i \in Written :
      LET n == FrameOf[i]
          lost == \/ n = 0
                  \/ Angle \notin RightAngles \cup {0}
                  \/ options.bars /\ IsBlack(video.pictures[n])
      IN entries[i].of.n = IF lost THEN 0 ELSE n

(* A hash and its timestamp are of the same frame, turned as the display   *)
(* matrix says, also when earlier segments were hashed or failed half-way  *)
(* and left their frame, their picture in the cached grey frame, or their  *)
(* matrix behind.                                                          *)
HashIsOfItsFrame ==
  \A i \in Hashed :
    LET of == entries[i].of
    IN /\ entries[i].timestamp = video.pts[of.n] * video.tick
       /\ of.angle = Angle
       /\ ~options.bars => of.kept = WholeOf(Picture(of))

(* Cropping removes black borders and nothing else: they are looked for in *)
(* 8 bits of luma, unless a conversion brought nothing; what is kept holds *)
(* every pixel that is not black; it starts and ends with a row and ends   *)
(* with a column that has such a pixel, and is less than the alignment too *)
(* wide on the left.                                                       *)
CropKeepsThePicture ==
  options.bars =>
    \A i \in Hashed :
      LET kept == entries[i].of.kept
          picture == Picture(entries[i].of)
          lit == {yx \in Rows(picture) \X Columns(picture) : HasVideo(picture, yx[1], yx[2])}
      IN \/ ~entries[i].of.luma /\ ScaledNothing
         \/ /\ entries[i].of.luma
            /\ \A yx \in lit : yx[1] \in kept.top .. kept.bottom /\ yx[2] \in kept.left .. kept.right
            /\ \E yx \in lit : yx[1] = kept.top
            /\ \E yx \in lit : yx[1] = kept.bottom
            /\ \E yx \in lit : yx[2] = kept.right
            /\ \E yx \in lit : yx[2] \in kept.left .. (kept.left + Alignment - 1)

(* A bit of a hash is set for a coefficient that exceeds most others by    *)
(* more than the epsilon: at most half of the bits are set, and a change   *)
(* of brightness, the first coefficient, sets none.                        *)
BitsAreAboveMedian ==
  \A i \in Hashed :
    LET detail == Tail(Coefficients(entries[i].of))
        Exceeded(k) == {j \in DOMAIN detail : detail[j] < detail[k] - 1}
    IN entries[i].bits = [k \in DOMAIN detail |-> 2 * Cardinality(Exceeded(k)) > Len(detail)]

(* An interrupted file is a failure, not a file with segments that could   *)
(* not be hashed: the latter would be stored in the cache and never hashed *)
(* again.  So is a file that ran out of memory, outside of the filter.     *)
InterruptIsNeverOk ==
  /\ \A k \in DOMAIN errors : errors[k].kind = "EXIT" => result = "AK_IO_FAIL"
  /\ \A k \in DOMAIN errors :
       errors[k].kind = "ENOMEM" /\ errors[k].at # "filter" => result = "AK_NO_MEM"

(* vreader_init: "AK_OK if success, anything else is an error".            *)
ReaderHasItsStream == step = "duration" => video.has_stream
=============================================================================

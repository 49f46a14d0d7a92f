----------------------------- MODULE EventTime ------------------------------
(***************************************************************************)
(* How event intelligence reads the time an organizer publishes            *)
(* (services/event_intelligence/candidates.py and parsers.py).  Times are  *)
(* numbers; a zone changes once, at the instant zone.at, from the offset   *)
(* zone.before to zone.after, which are in the unit of the times.          *)
(***************************************************************************)
EXTENDS Integers

Zone == [at : Int, before : Int, after : Int]

\* A published time: left out, not a time, with an offset of its own, or a local time.
PublishedTime ==
  [kind : {"missing", "garbled"}] \cup [kind : {"aware"}, instant : Int]
    \cup [kind : {"naive"}, local : Int]

\* What a source says of the zone of its times.
TimezoneHint == [kind : {"none", "unknown"}] \cup [kind : {"zone"}, zone : Zone]

\* The zone's offset at an instant, and the local time shown then.
OffsetAt(zone, instant) == IF instant < zone.at THEN zone.before ELSE zone.after
LocalTime(zone, instant) == instant + OffsetAt(zone, instant)

(***************************************************************************)
(* datetime.utcoffset of a local time: of the two readings of a time that  *)
(* the zone shows twice or skips, fold 0 has the offset before the change  *)
(* and fold 1 the offset after it (PEP 495).                               *)
(***************************************************************************)
utcoffset(local, zone, fold) ==
  LET low == IF zone.before < zone.after THEN zone.before ELSE zone.after
      high == IF zone.before < zone.after THEN zone.after ELSE zone.before
  IN IF local < zone.at + (IF fold = 0 THEN high ELSE low) THEN zone.before ELSE zone.after

\* Mutant of is_ambiguous_local_time: every local time is taken as it stands.
is_ambiguous_never(local, zone) == FALSE

is_ambiguous_local_time(local, zone) ==
  utcoffset(local, zone, 0) # utcoffset(local, zone, 1)

NormalizedTime(status, utc) == [status |-> status, utc |-> utc]
\* An optional instant is a sequence of none or one.
NoInstant == <<>>

\* normalize_event_time; the hint may be missing or name no zone there is.
normalize_event_time(value, hint) ==
  CASE value.kind = "missing" -> NormalizedTime("missing", NoInstant)
    [] value.kind = "garbled" -> NormalizedTime("ambiguous", NoInstant)
    [] value.kind = "aware" -> NormalizedTime("resolved", <<value.instant>>)
    [] value.kind = "naive" /\ hint.kind = "none" -> NormalizedTime("missing", NoInstant)
    [] value.kind = "naive" /\ hint.kind = "unknown" -> NormalizedTime("ambiguous", NoInstant)
    [] value.kind = "naive" /\ hint.kind = "zone" ->
         IF is_ambiguous_local_time(value.local, hint.zone)
           THEN NormalizedTime("ambiguous", NoInstant)
           ELSE NormalizedTime("resolved", <<value.local - utcoffset(value.local, hint.zone, 0)>>)
=============================================================================

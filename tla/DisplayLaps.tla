---------------------------- MODULE DisplayLaps ----------------------------
(***************************************************************************)
(* DisplayPlayer with a record of what was shown: how often the queue has  *)
(* been wrapped, how often each entry was opened and how often it was      *)
(* played to its end, and the timeouts that passed since the last media    *)
(* ended.  The history constrains nothing but MaxLaps.                     *)
(***************************************************************************)
EXTENDS DisplayPlayer

CONSTANT MaxLaps    \* bound: number of times the queue is wrapped

ASSUME DisplayLapsAssumption == MaxLaps \in Nat

VARIABLES
    laps,       \* times the index was reset to the first entry
    joined,     \* joined[i]: the value of laps when entry i was appended
    plays,      \* plays[i]: times entry i was opened
    finished,   \* finished[i]: times entry i was played to its end
    silent      \* a timeout has passed with nothing playing

lapVars == <<alive, playlist, current_index_of_queue, media, current, disk,
             laps, joined, plays, finished, silent>>

Wraps == current_index_of_queue = Len(playlist) /\ playlist # <<>>

LapsInit ==
    /\ PlayerInit
    /\ laps = 0
    /\ joined = <<>> /\ plays = <<>> /\ finished = <<>>
    /\ silent = FALSE

LapsReceive ==
    /\ Receive
    /\ joined' = [i \in DOMAIN playlist' |-> IF i \in DOMAIN joined THEN joined[i] ELSE laps]
    /\ plays' = [i \in DOMAIN playlist' |-> IF i \in DOMAIN plays THEN plays[i] ELSE 0]
    /\ finished' = [i \in DOMAIN playlist' |-> IF i \in DOMAIN finished THEN finished[i] ELSE 0]
    /\ UNCHANGED <<laps, silent>>

LapsOpen ==
    /\ Wraps => laps < MaxLaps
    /\ check_media_state
    /\ laps' = IF Wraps THEN laps + 1 ELSE laps
    /\ plays' = [plays EXCEPT ![current'] = @ + 1]
    /\ silent' = FALSE
    /\ UNCHANGED <<joined, finished>>

\* A timeout that finds nothing playing and nothing to open.
LapsTimeout ==
    /\ alive /\ media \in AdvanceStates /\ playlist = <<>>
    /\ silent' = TRUE
    /\ UNCHANGED <<playerVars, laps, joined, plays, finished>>

LapsEnded ==
    /\ MediaEnded
    /\ finished' = [finished EXCEPT ![current] = @ + 1]
    /\ silent' = FALSE
    /\ UNCHANGED <<laps, joined, plays>>

LapsMedia ==
    /\ MediaOpening \/ MediaPlaying \/ MediaError
    /\ UNCHANGED <<laps, joined, plays, finished, silent>>

LapsNext == LapsReceive \/ LapsOpen \/ LapsTimeout \/ LapsEnded \/ LapsMedia

LapsSpec == LapsInit /\ [][LapsNext]_lapVars

-----------------------------------------------------------------------------
\* The types; the history has one counter per entry of the playlist.
LapsTypeOK ==
    /\ PlayerTypeOK
    /\ laps \in Nat
    /\ joined \in [DOMAIN playlist -> Nat]
    /\ plays \in [DOMAIN playlist -> Nat]
    /\ finished \in [DOMAIN playlist -> Nat]
    /\ silent \in BOOLEAN

\* Where an entry stands: the laps it was in the playlist for, and whether the
\* current lap has reached it.  Every entry has been opened once in every lap
\* since it was appended, wherever in a lap that was (play_next_media_in_queue).
OncePerLap ==
    \A i \in DOMAIN playlist :
        plays[i] + joined[i] = laps + (IF i <= current_index_of_queue THEN 1 ELSE 0)

\* If VLC leaves the idle state within open(), nothing is cut short: an entry
\* has been shown to its end as often as it has been opened, save the one being
\* shown.  (If VLC still reports idle at the next timeout, this is lost.)
NothingCutShort ==
    OpenStates = {"Opening"} =>
        \A i \in DOMAIN playlist :
            plays[i] = finished[i] + (IF i = current /\ media # "Ended" THEN 1 ELSE 0)

\* What the comment above play_next_media_in_queue says: the output pauses
\* before an entry whose pause is not zero, so that after the last media has
\* ended at least one timeout finds nothing playing before that entry is opened.
PauseHonoured ==
    [][ LapsOpen /\ media = "Ended" /\ playlist[current'].pause = "positive"
          => silent ]_lapVars
=============================================================================

------------------------------- MODULE MCCore -------------------------------
(***************************************************************************)
(* The sequential heart of shared/core: the replay window, the session,    *)
(* the decompressor, the configuration parser, the transfers, the buzzer   *)
(* and the watchdog.                                                       *)
(*                                                                         *)
(* A behaviour is one of a single component: the variable which says of    *)
(* which, and the variables of the others do not change. They share no     *)
(* state, so the run is the sum of seven.                                  *)
(***************************************************************************)
EXTENDS NonceBitmap, Session, Inflate, ConfigParse, Transfer, Buzzer, Watchdog

VARIABLE which

\* Binary inputs, security, NFC (two slots), extended data (which the BG22 does
\* not build) and an id from the future.
MCPackets == {[id |-> 37, v |-> "a"], [id |-> 39, v |-> "a"], [id |-> 39, v |-> "zero"],
              [id |-> 42, v |-> "a"], [id |-> 42, v |-> "b"], [id |-> 44, v |-> "a"],
              [id |-> 153, v |-> "a"]}
MCCuts == {0, 1, 2, 3, 31, 32, 33, 34, 65, 66, 289}
MCFactory == {[pkts |-> <<[id |-> 37, v |-> "a"]>>, cut |-> 0]}

\* The streams the decoders are given.  Three sound ones, between them with all
\* three kinds of block, two blocks in a row, matches that overlap their own
\* output and both kinds of repeat in a dynamic tree; one with a wrong checksum;
\* one with a byte after its end.
Fixed ==
  [bytes |-> <<24, 25, 99, 63, 1, 2, 64, 2, 0, 28, 104, 6, 72>>,
   plain |-> <<7, 200, 200, 200, 200, 200, 200, 200, 200>>,
   end |-> 13, good |-> TRUE]

StoredThenFixed ==
  [bytes |-> <<24, 25, 0, 3, 0, 252, 255, 1, 2, 3, 67, 130, 0, 0, 252, 0, 34>>,
   plain |-> <<1, 2, 3, 2, 3, 2, 3, 2, 3, 2, 3, 2, 3, 2>>,
   end |-> 17, good |-> TRUE]

Dynamic ==
  [bytes |-> <<24, 25, 77, 196, 49, 1, 0, 0, 0, 130, 48, 208, 254, 157, 125, 221, 49, 76, 159, 215, 0, 4, 16, 0, 73>>,
   plain |-> <<0, 1, 2, 3, 3, 3, 3, 3, 3, 3, 3, 3, 3, 3, 3, 3, 1, 3, 3, 3, 3, 1, 3, 3, 3, 3, 1, 3>>,
   end |-> 25, good |-> TRUE]

BadSum ==
  [bytes |-> <<24, 25, 99, 63, 1, 2, 64, 2, 0, 28, 104, 6, 73>>,
   plain |-> <<7, 200, 200, 200, 200, 200, 200, 200, 200>>,
   end |-> 13, good |-> FALSE]

Trailing ==
  [bytes |-> <<24, 25, 99, 63, 1, 2, 64, 2, 0, 28, 104, 6, 72, 0>>,
   plain |-> <<7, 200, 200, 200, 200, 200, 200, 200, 200>>,
   end |-> 13, good |-> TRUE]

MCStreams == {Fixed, StoredThenFixed, Dynamic, BadSum, Trailing}

mcVars == <<which, bitmapVars, sessionVars, inflateVars, parseVars, transferVars, buzzerVars, watchdogVars>>

MCInit ==
  /\ which \in {"nonce", "session", "inflate", "parse", "xfer", "buzzer", "watchdog"}
  /\ BitmapInit
  /\ SessionInit
  /\ IF which = "inflate" THEN InflateInit
     ELSE /\ engine = 0 /\ scratch = 0 /\ pump = 0 /\ stream = 0 /\ sent = 0 /\ drawn = 0
          /\ result = 0 /\ starts = 0
  /\ IF which = "parse" THEN ParseInit
     ELSE /\ target = 0 /\ stored = 0 /\ cfg = 0 /\ armed = 0 /\ up = 0 /\ writes = 0
  /\ TransferInit /\ (which # "xfer" => panel = [auto_end |-> FALSE, planes |-> FALSE])
  /\ IF which = "buzzer" THEN BuzzerInit
     ELSE /\ run = 0 /\ clock = 0 /\ sounding = 0 /\ enable = 0 /\ running = 0 /\ timer = 0
          /\ items = 0 /\ ended = 0 /\ used = 0
  /\ WatchdogInit

MCNext ==
  \/ which = "nonce" /\ BitmapNext
     /\ UNCHANGED <<which, sessionVars, inflateVars, parseVars, transferVars, buzzerVars, watchdogVars>>
  \/ which = "session" /\ SessionNext
     /\ UNCHANGED <<which, bitmapVars, inflateVars, parseVars, transferVars, buzzerVars, watchdogVars>>
  \/ which = "inflate" /\ InflateNext
     /\ UNCHANGED <<which, bitmapVars, sessionVars, parseVars, transferVars, buzzerVars, watchdogVars>>
  \/ which = "parse" /\ ParseNext
     /\ UNCHANGED <<which, bitmapVars, sessionVars, inflateVars, transferVars, buzzerVars, watchdogVars>>
  \/ which = "xfer" /\ TransferNext
     /\ UNCHANGED <<which, bitmapVars, sessionVars, inflateVars, parseVars, buzzerVars, watchdogVars>>
  \/ which = "buzzer" /\ BuzzerNext
     /\ UNCHANGED <<which, bitmapVars, sessionVars, inflateVars, parseVars, transferVars, watchdogVars>>
  \/ which = "watchdog" /\ WatchdogNext
     /\ UNCHANGED <<which, bitmapVars, sessionVars, inflateVars, parseVars, transferVars, buzzerVars>>

MCSpec == MCInit /\ [][MCNext]_mcVars

-----------------------------------------------------------------------------
(* Properties.                                                             *)

\* InflateInv: the panel holds a prefix of the image wherever the stream is
\* cut, and a transfer completes only with the whole of it
\* (od_zlib_inflate.c, od_zlib_pump.c).
InflateSafe == which = "inflate" => InflateInv

\* ParseMatches: a loaded configuration says what its blob says
\* (od_config.c and its three readers).
ParseSafe == which = "parse" => ParseMatches

\* A tune is played as its payload says, and no command sounds longer than
\* the limit (od_buzzer.c).
BuzzerSafe == which = "buzzer" => TunePlayed /\ SoundBounded
=============================================================================

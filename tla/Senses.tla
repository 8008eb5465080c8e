------------------------------- MODULE Senses -------------------------------
(***************************************************************************)
(* The snapshot of the senses in consciousness/senses/senses.c: how long   *)
(* the machine is up, how bright the camera's picture is and how much that *)
(* has changed, how loud the microphone is.  What a device delivers is any *)
(* frame; the square root of the loudness is found a bit at a time.        *)
(***************************************************************************)
EXTENDS Integers, Sequences

CONSTANTS
    TicksGuess,     \* ticks_per_ms before it is calibrated
    TicksPerMs,     \* and after
    MaxTsc,         \* bounds the processor's clock
    Word,           \* 2^64
    CamFrames,      \* what the camera may deliver: the luma of each pixel
    MaxPixels,      \* 10000, the pixels looked at
    MicFrames,      \* what the microphone may deliver: samples
    MaxSamples,     \* 4096, the samples looked at
    RootBits,       \* the bits a root may have: the powers of two up to 2^15
    TopBit          \* 2^30, the square of the highest

Smaller(a, b) == IF a < b THEN a ELSE b

\* The sum that a loop over s accumulates.
Total(s) ==
    LET sum[i \in 0 .. Len(s)] == IF i = 0 THEN 0 ELSE sum[i - 1] + s[i]
    IN  sum[Len(s)]

\* The pixels and samples looked at.
Seen(frame)  == SubSeq(frame, 1, Smaller(Len(frame), MaxPixels))
Heard(frame) == SubSeq(frame, 1, Smaller(Len(frame), MaxSamples))

\* Mutation: the sum of the pixels looked at, divided by the number of all.
MeanOfAll(frame) == Total(Seen(frame)) \div Len(frame)

MeanLuma(frame) == Total(Seen(frame)) \div Smaller(Len(frame), MaxPixels)

MeanSquare(frame) ==
    LET heard == Heard(frame)
    IN  Total([i \in DOMAIN heard |-> heard[i] * heard[i]]) \div Len(heard)

\* A pixel's luma is a byte; a sample has 16 bits, so its square is at most 2^30.
Luma   == 0 .. 255
Sample == {v \in Int : v * v < 4 * TopBit}

ASSUME SensesAssumption ==
    /\ TicksGuess \in Nat \ {0} /\ TicksPerMs \in Nat \ {0}
    /\ MaxTsc \in Nat /\ Word \in Nat /\ MaxTsc < Word
    /\ MaxPixels \in Nat \ {0} /\ MaxSamples \in Nat \ {0}
    /\ CamFrames \subseteq Seq(Luma) \ {<<>>}
    /\ MicFrames \subseteq Seq(Sample) \ {<<>>}
    /\ RootBits \subseteq Nat \ {0}
    /\ \A s \in RootBits : s = 1 \/ \E half \in RootBits : s = 2 * half
    /\ \E s \in RootBits : TopBit = s * s

VARIABLES
    tsc,
    ticks_per_ms, boot_tick,    \* senses_init
    uptime_ms,                  \* of the last snapshot
    prev_luma,                  \* of the last picture
    mean_luma, motion_delta,
    x, r, bit,                  \* the loop of the square root
    rms,
    picture,                    \* history: what the last snapshot was taken of
    mean_sq,                    \* history: what the loop takes the root of
    sensing                     \* "off", "idle", "mic", "root"

clockVars  == <<tsc, ticks_per_ms, boot_tick, uptime_ms>>
cameraVars == <<prev_luma, mean_luma, motion_delta, picture>>
micVars    == <<x, r, bit, rms, mean_sq>>
sensesVars == <<clockVars, cameraVars, micVars, sensing>>

SensesStart ==
    /\ tsc = 0
    /\ ticks_per_ms = TicksGuess
    /\ boot_tick = 0
    /\ uptime_ms = 0
    /\ prev_luma = 128
    /\ mean_luma = 0
    /\ motion_delta = 0
    /\ picture = <<>>
    /\ x = 0 /\ r = 0 /\ bit = 0
    /\ rms = 0
    /\ mean_sq = 0
    /\ sensing = "off"

\* Mutation: the tick is taken before the clock is calibrated.
SensesInitUncalibrated(now) ==
    /\ sensing = "off"
    /\ tsc' = now
    /\ ticks_per_ms' = TicksPerMs
    /\ boot_tick' = now \div ticks_per_ms
    /\ sensing' = "idle"
    /\ UNCHANGED <<uptime_ms, cameraVars, micVars>>

\* senses_init: calibrate_tsc, then the tick of the boot.
SensesInit(now) ==
    /\ sensing = "off"
    /\ tsc' = now
    /\ ticks_per_ms' = TicksPerMs
    /\ boot_tick' = now \div ticks_per_ms'
    /\ sensing' = "idle"
    /\ UNCHANGED <<uptime_ms, cameraVars, micVars>>

Apart(a, b) == IF a < b THEN b - a ELSE a - b

\* The camera's part of senses_capture.
SeePicture(frame) ==
    /\ mean_luma' = MeanLuma(frame)
    /\ motion_delta' = Apart(mean_luma', prev_luma)
    /\ prev_luma' = mean_luma'
    /\ picture' = frame

\* Without a camera the snapshot says nothing of it.
SeeNothing ==
    /\ mean_luma' = 0
    /\ motion_delta' = 0
    /\ picture' = <<>>
    /\ UNCHANGED prev_luma

\* senses_capture up to the microphone.
Capture(camera, now) ==
    /\ sensing = "idle"
    /\ now >= tsc
    /\ tsc' = now
    /\ uptime_ms' = (now \div ticks_per_ms - boot_tick) % Word
    /\ IF camera THEN \E frame \in CamFrames : SeePicture(frame) ELSE SeeNothing
    /\ sensing' = "mic"
    /\ UNCHANGED <<ticks_per_ms, boot_tick, micVars>>

\* The mean of the squares, and the start of the loop; without a microphone the
\* snapshot says nothing of it.  A frame always has its 4096 samples.
Listen(microphone) ==
    /\ sensing = "mic"
    /\ \/ \E frame \in MicFrames :
             /\ microphone
             /\ mean_sq' = MeanSquare(frame)
             /\ x' = mean_sq'
             /\ r' = 0
             /\ bit' = TopBit
             /\ sensing' = "root"
             /\ UNCHANGED rms
       \/ /\ ~ microphone
          /\ mean_sq' = 0
          /\ rms' = 0
          /\ sensing' = "idle"
          /\ UNCHANGED <<x, r, bit>>
    /\ UNCHANGED <<clockVars, cameraVars>>

\* while (bit > x) bit >>= 2: before the first bit of the root is found.
SkipBit ==
    /\ sensing = "root"
    /\ r = 0 /\ x = mean_sq
    /\ bit > x
    /\ bit' = bit \div 4
    /\ UNCHANGED <<clockVars, cameraVars, x, r, rms, mean_sq, sensing>>

\* Mutation: the bits of the square are taken one by one.
RootBitHalves ==
    /\ bit # 0
    /\ IF x >= r + bit
       THEN x' = x - (r + bit) /\ r' = r \div 2 + bit
       ELSE x' = x /\ r' = r \div 2
    /\ bit' = bit \div 2
    /\ UNCHANGED <<rms, sensing>>

\* One pass of the second loop: is the bit part of the root?
RootBit ==
    /\ bit # 0
    /\ IF x >= r + bit
       THEN x' = x - (r + bit) /\ r' = r \div 2 + bit
       ELSE x' = x /\ r' = r \div 2
    /\ bit' = bit \div 4
    /\ UNCHANGED <<rms, sensing>>

RootFound ==
    /\ bit = 0
    /\ rms' = r
    /\ sensing' = "idle"
    /\ UNCHANGED <<x, r, bit>>

FindRoot ==
    /\ sensing = "root"
    /\ ~ (r = 0 /\ x = mean_sq /\ bit > x)
    /\ RootBit \/ RootFound
    /\ UNCHANGED <<clockVars, cameraVars, mean_sq>>

-----------------------------------------------------------------------------
Root(n, q) == q * q <= n /\ n < (q + 1) * (q + 1)

\* The loudness is the whole part of the root of the mean square.
LoudnessExact == sensing = "idle" => Root(mean_sq, rms)

\* The brightness lies between the darkest and the brightest pixel looked at:
\* the sum and its divisor stop at the same pixel.
BrightnessWithin ==
    picture # <<>> =>
        /\ \E i \in DOMAIN Seen(picture) : picture[i] <= mean_luma
        /\ \E i \in DOMAIN Seen(picture) : mean_luma <= picture[i]

\* What a snapshot says is what the devices delivered (senses.c:64-67,93-103).
ReadingsExact == LoudnessExact /\ BrightnessWithin

\* A snapshot follows the one before: the time since boot has not gone back, is
\* no longer than the clock has run, and the motion is the change from the
\* picture before, 128 before the first (senses.c:41-43,52,70-73).
SnapshotsFollow ==
    [][sensing = "idle" /\ sensing' = "mic" =>
          /\ uptime_ms' \in uptime_ms .. tsc' \div TicksPerMs
          /\ picture' # <<>> =>
                motion_delta' = Apart(mean_luma', IF picture = <<>> THEN 128
                                                  ELSE mean_luma)]_sensesVars
=============================================================================

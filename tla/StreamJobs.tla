------------------------------ MODULE StreamJobs ------------------------------
(***************************************************************************)
(* Stream creation and TX worker balancing, from                           *)
(* src/code/bngblaster/src/bbl_stream.c: bbl_stream_add (one or two        *)
(* streams per configuration, upstream on the session's access interface,  *)
(* downstream on the network interface), the RAW streams of                *)
(* bbl_stream_init, and bbl_stream_add_jobs, which walks the interface's   *)
(* TX io handles and gives the stream to the first thread with the least   *)
(* pps_reserved, then adds the stream's pps to it.  pps_reserved is a      *)
(* uint32_t (io_def.h) and config->pps a double: the sum is truncated.     *)
(* A rate is an integer number of 1/Den packets per second.                *)
(***************************************************************************)
EXTENDS Naturals, Sequences, FiniteSets

CONSTANTS
    Threads,       \* the TX io threads
    Interfaces,    \* the interfaces streams are sent from
    IfThreads,     \* interface -> the threads of its io.tx list, in order
    AccessIf,      \* the session's access interface (upstream streams)
    Den,           \* a rate r stands for r / Den packets per second
    PpsValues,     \* config->pps of the configured streams, in 1/Den pps
    MaxStreams     \* streams added in a behaviour (model bound)

ASSUME IfThreads \in [Interfaces -> Seq(Threads)] /\ AccessIf \in Interfaces
ASSUME Den \in Nat \ {0} /\ PpsValues \subseteq Nat \ {0}

Directions == {"up", "down", "both"}

(* A stream configuration: its rate, its direction and, for downstream,   *)
(* the network interface it names.                                         *)
Configs == [pps : PpsValues, direction : Directions,
            interface : Interfaces \ {AccessIf}]

VARIABLES
    reserved,   \* thread -> thread->pps_reserved
    load,       \* thread -> the pps of the streams it was given, exactly
    flows       \* g_ctx->stats.stream_traffic_flows

jobs_vars == <<reserved, load, flows>>

(* The walk of bbl_stream_add_jobs compared with the first thread instead  *)
(* of the best so far (mutant).                                            *)
RECURSIVE PickAgainstFirst(_, _, _, _)
PickAgainstFirst(r, ts, i, best) ==
    IF i > Len(ts) THEN best
    ELSE PickAgainstFirst(r, ts, i + 1,
                          IF r[ts[i]] < r[ts[1]] THEN ts[i] ELSE best)

(* The walk of bbl_stream_add_jobs over io.tx: keep the best so far and    *)
(* replace it only by a thread with strictly less pps_reserved.            *)
RECURSIVE Pick(_, _, _, _)
Pick(r, ts, i, best) ==
    IF i > Len(ts) THEN best
    ELSE Pick(r, ts, i + 1, IF r[ts[i]] < r[best] THEN ts[i] ELSE best)

(* The thread a stream added to interface i gets.                          *)
Chosen(r, i) == Pick(r, IfThreads[i], 1, IfThreads[i][1])

(* pps_reserved kept in 1/Den units, without the truncation (mutant).      *)
CreditExact(r, t, pps) == [r EXCEPT ![t] = @ * Den + pps]

(* thread->pps_reserved += stream->config->pps, truncated to uint32_t.     *)
Credit(r, t, pps) == [r EXCEPT ![t] = (@ * Den + pps) \div Den]

(* bbl_stream_add_jobs for one stream on interface i: a thread is chosen   *)
(* and credited when the interface has TX threads; otherwise the stream    *)
(* runs on the main loop's timer and nothing is reserved.  The result is   *)
(* the pair <<reserved, load>> after the call.                             *)
AddJobs(rl, i, pps) ==
    IF IfThreads[i] = << >> THEN rl
    ELSE LET t == Chosen(rl[1], i)
         IN <<Credit(rl[1], t, pps), [rl[2] EXCEPT ![t] = @ + pps]>>

(* bbl_stream_add for configuration c (and the RAW loop of                 *)
(* bbl_stream_init, a downstream-only configuration): the upstream stream  *)
(* first, on the access interface, then the downstream one.                *)
AddStream(c) ==
    LET up   == c.direction \in {"up", "both"}
        down == c.direction \in {"down", "both"}
        rl1  == IF up THEN AddJobs(<<reserved, load>>, AccessIf, c.pps)
                      ELSE <<reserved, load>>
        rl2  == IF down THEN AddJobs(rl1, c.interface, c.pps) ELSE rl1
    IN /\ flows + (IF c.direction = "both" THEN 2 ELSE 1) <= MaxStreams
       /\ reserved' = rl2[1]
       /\ load' = rl2[2]
       /\ flows' = flows + (IF c.direction = "both" THEN 2 ELSE 1)

JobsInit ==
    /\ reserved = [t \in Threads |-> 0]
    /\ load = [t \in Threads |-> 0]
    /\ flows = 0

JobsNext == \E c \in Configs : AddStream(c)

JobsSpec == JobsInit /\ [][JobsNext]_jobs_vars

-----------------------------------------------------------------------------
MaxPps == CHOOSE p \in PpsValues : \A q \in PpsValues : q <= p

Spread(f, ts) ==
    LET vals == {f[ts[k]] : k \in DOMAIN ts}
    IN (CHOOSE hi \in vals : \A v \in vals : v <= hi)
       - (CHOOSE lo \in vals : \A v \in vals : lo <= v)

JobsTypeOK ==
    /\ reserved \in [Threads -> 0..(MaxStreams * MaxPps) \div Den]
    /\ load \in [Threads -> 0..MaxStreams * MaxPps]
    /\ flows \in 0..MaxStreams

(* Spec S6: on every interface, the pps_reserved of its TX threads differ  *)
(* by at most the largest stream rate (bbl_stream_add_jobs).               *)
ReservedBalanced ==
    \A i \in Interfaces :
        IfThreads[i] # << >> => Spread(reserved, IfThreads[i]) * Den <= MaxPps

(* Spec 4.E: each stream goes to the least-reserved worker, which is then  *)
(* credited by stream.pps, so the rates the workers really carry differ by *)
(* at most the largest stream rate (bbl_stream_add_jobs).                  *)
LoadBalanced ==
    \A i \in Interfaces :
        IfThreads[i] # << >> => Spread(load, IfThreads[i]) <= MaxPps

====

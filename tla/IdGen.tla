-------------------------------- MODULE IdGen --------------------------------
(***************************************************************************)
(* The id generators of pkg/idgen.  Snowflake, RoutedFlake and             *)
(* AccountIDGenerator are one algorithm over three bit layouts: under a    *)
(* mutex, milliseconds of the host's clock, a field the caller chooses     *)
(* (the facet of an account, the route hint of a message; none for         *)
(* Snowflake, whose FacetSpan is 1), the machine's number and a sequence   *)
(* number, from the high bits to the low ones.  A clock may be set back.   *)
(***************************************************************************)
EXTENDS Integers, Sequences

CONSTANTS
    Machines,      \* machine numbers of the running instances, one each
    SequenceSpan,  \* 2^sequenceBits
    MachineSpan,   \* 2^machineBits
    FacetSpan,     \* 2^facetBits
    EpochMs,       \* the epoch, in milliseconds of the clock
    MaxTimestamp,  \* the largest tick that fits the timestamp bits
    MaxClock,      \* bound: milliseconds the clock runs through
    MaxMinted      \* bound: ids of an instance

ASSUME IdGenConstants ==
    /\ SequenceSpan \in Nat \ {0} /\ MachineSpan \in Nat \ {0} /\ FacetSpan \in Nat \ {0}
    /\ EpochMs \in Nat /\ MaxTimestamp \in Nat /\ MaxClock \in Nat /\ MaxMinted \in Nat
    /\ Machines \subseteq 0 .. MachineSpan - 1

VARIABLES
    now,           \* the clock of an instance's host
    started,       \* its clock when the process started
    lastMs,        \* time of its last id, -1 before the first
    sequence,      \* its sequence number
    spinning,      \* the facet of the call in waitNextMillis, -1 without one
    minted         \* history: the ids it returned, with the facets asked for

idgenVars == <<now, started, lastMs, sequence, spinning, minted>>
Facets == 0 .. FacetSpan - 1

IdGenInit ==
    /\ now = [g \in Machines |-> 0] /\ started = now
    /\ lastMs = [g \in Machines |-> -1]
    /\ sequence = [g \in Machines |-> 0]
    /\ spinning = [g \in Machines |-> -1]
    /\ minted = [g \in Machines |-> <<>>]

(* The host's clock runs, or is set back.  That it is not set back past the *)
(* start of the process, and that the process starts after the ids of the   *)
(* last one (NewGenerator), is an assumption on the host: lastMs is not     *)
(* kept, and a clock set back over a restart repeats ids.  So does one that *)
(* jumps past the timestamp bits and back: the call that fails in between   *)
(* has reset the sequence and left lastMs as it was.                        *)
Clock(g, ms) ==
    /\ ms >= started[g]
    /\ now[g] > EpochMs + MaxTimestamp => ms >= now[g]
    /\ now' = [now EXCEPT ![g] = ms]
    /\ UNCHANGED <<started, lastMs, sequence, spinning, minted>>

(* tick << timestampShift | facet << facetShift | machine << machineShift | sequence *)
Pack(tick, facet, g, seq) ==
    ((tick * FacetSpan + facet) * MachineSpan + g) * SequenceSpan + seq

(* (id >> accountFacetShift) & accountFacetMask *)
AccountFacet(id) == (id \div (SequenceSpan * MachineSpan)) % FacetSpan

(* The end of Next, which fails before the epoch and past the timestamp's  *)
(* bits with the sequence moved on and lastMs as it was.                   *)
Mint(g, facet, ms, seq) ==
    LET tick == ms - EpochMs
    IN  IF tick \in 0 .. MaxTimestamp
        THEN /\ lastMs' = [lastMs EXCEPT ![g] = ms]
             /\ minted' = [minted EXCEPT ![g] = Append(@, [id |-> Pack(tick, facet, g, seq), facet |-> facet])]
        ELSE UNCHANGED <<lastMs, minted>>

(* Mutant of NextSequence: a full millisecond is not noticed. *)
NextSequenceWraps(g, facet) ==
    LET seq == IF now[g] = lastMs[g] THEN (sequence[g] + 1) % SequenceSpan ELSE 0
    IN  /\ sequence' = [sequence EXCEPT ![g] = seq]
        /\ Mint(g, facet, now[g], seq) /\ UNCHANGED spinning

(* A full millisecond is waited out with the mutex held. *)
NextSequence(g, facet) ==
    LET seq == IF now[g] = lastMs[g] THEN (sequence[g] + 1) % SequenceSpan ELSE 0
    IN  /\ sequence' = [sequence EXCEPT ![g] = seq]
        /\ IF now[g] = lastMs[g] /\ seq = 0
           THEN spinning' = [spinning EXCEPT ![g] = facet] /\ UNCHANGED <<lastMs, minted>>
           ELSE Mint(g, facet, now[g], seq) /\ UNCHANGED spinning

(* Next: a clock behind the last id is an error. *)
NextID(g, facet) ==
    /\ spinning[g] = -1 /\ Len(minted[g]) < MaxMinted
    /\ now[g] >= lastMs[g]
    /\ NextSequence(g, facet) /\ UNCHANGED <<now, started>>

WaitNextMillis(g) ==
    /\ spinning[g] # -1 /\ now[g] > lastMs[g]
    /\ Mint(g, spinning[g], now[g], sequence[g])
    /\ spinning' = [spinning EXCEPT ![g] = -1]
    /\ UNCHANGED <<now, started, sequence>>

(* A new process on the host remembers nothing. *)
NewGenerator(g) ==
    /\ now[g] > lastMs[g] /\ lastMs[g] # -1
    /\ lastMs' = [lastMs EXCEPT ![g] = -1]
    /\ sequence' = [sequence EXCEPT ![g] = 0]
    /\ spinning' = [spinning EXCEPT ![g] = -1]
    /\ started' = [started EXCEPT ![g] = now[g]]
    /\ UNCHANGED <<now, minted>>

IdGenNext ==
    \E g \in Machines :
        \/ \E ms \in 0 .. MaxClock : Clock(g, ms)
        \/ \E facet \in Facets : NextID(g, facet)
        \/ WaitNextMillis(g)
        \/ NewGenerator(g)

IdGenSpec == IdGenInit /\ [][IdGenNext]_idgenVars
-----------------------------------------------------------------------------
(* Ids are never handed out twice, by one instance or by two: not when a    *)
(* millisecond runs out of sequence numbers, not when the clock is set back *)
(* while the generator spins, not after a restart.  server_msg_id, media_id *)
(* and account_id are primary keys.                                         *)
UniqueIds ==
    \A g, h \in Machines : \A i \in 1 .. Len(minted[g]), j \in 1 .. Len(minted[h]) :
        minted[g][i].id = minted[h][j].id => g = h /\ i = j

(* "is this receiver an agent" is answerable from the id alone (account.go): *)
(* whatever the other fields are, the facet read from an id is the one it    *)
(* was minted with.  Push filtering and trigger judgment rest on it.         *)
FacetSurvives ==
    \A g \in Machines : \A i \in 1 .. Len(minted[g]) :
        AccountFacet(minted[g][i].id) = minted[g][i].facet

(* An id names one thing and tells its kind.                                *)
IdsSound == UniqueIds /\ FacetSurvives
=============================================================================

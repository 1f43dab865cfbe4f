--------------------------- MODULE LibraryListing ---------------------------
(***************************************************************************)
(* `library list` (internal/library/list.go) running next to the adds of   *)
(* Library: a walk of the root and of each shard directory, then one       *)
(* index.json and its occurrences at a time, with no snapshot.             *)
(***************************************************************************)
EXTENDS Library

CONSTANTS
    Listers,        \* processes running `library list`
    ShardOf,        \* [Fps -> shards], the first two hex digits
    MaxListResults  \* 1,000 in the code

ASSUME ListingAssumption == MaxListResults \in Nat

VARIABLES
    lsPc,
    lsShards,   \* shard directories still to be read
    lsFps,      \* fingerprints found, then those still to be summarized
    lsFp,       \* the fingerprint being summarized
    lsTodo,     \* its entries still to be verified
    listing,    \* entries listed under each fingerprint
    lsResult,
    stray,      \* shards that hold an entry which is no fingerprint directory
    lsKnown     \* history: fingerprints acknowledged before the list began

lsLocals == <<lsPc, lsShards, lsFps, lsFp, lsTodo, listing, lsResult>>
lsVars == <<lsLocals, stray, lsKnown>>
allVars == <<vars, lsVars>>

Shards == {ShardOf[f] : f \in Fps}

LsTypeOK ==
    /\ lsPc \in [Listers -> {"idle", "root", "shard", "index", "verify"}]
    /\ lsShards \in [Listers -> SUBSET Shards]
    /\ lsFps \in [Listers -> SUBSET Fps]
    /\ lsFp \in [Listers -> Fps]
    /\ lsTodo \in [Listers -> SUBSET Docs]
    /\ listing \in [Listers -> [Fps -> SUBSET Docs]]
    /\ lsResult \in [Listers -> {"none", "listed", "corrupted", "malformed",
                                 "malformedLibrary", "tooMany", "failed"}]
    /\ stray \subseteq Shards
    /\ lsKnown \in [Listers -> SUBSET Fps]

EmptyListing == [f \in Fps |-> {}]

LsInit ==
    /\ lsPc = [l \in Listers |-> "idle"]
    /\ lsShards = [l \in Listers |-> {}]
    /\ lsFps = [l \in Listers |-> {}]
    /\ lsFp = [l \in Listers |-> FpOf[AnyDoc]]
    /\ lsTodo = [l \in Listers |-> {}]
    /\ listing = [l \in Listers |-> EmptyListing]
    /\ lsResult = [l \in Listers |-> "none"]
    /\ stray = {}
    /\ lsKnown = [l \in Listers |-> {}]

LsGoto(l, label) == lsPc' = [lsPc EXCEPT ![l] = label]

\* List returns: no partial listing on an error.
LsReturn(l, r) ==
    /\ lsPc' = [lsPc EXCEPT ![l] = "idle"]
    /\ lsResult' = [lsResult EXCEPT ![l] = r]
    /\ lsShards' = [lsShards EXCEPT ![l] = {}]
    /\ lsFps' = [lsFps EXCEPT ![l] = {}]
    /\ lsTodo' = [lsTodo EXCEPT ![l] = {}]
    /\ listing' = [listing EXCEPT ![l] = IF r = "listed" THEN @ ELSE EmptyListing]
    /\ UNCHANGED lsFp

LsBegin(l) ==
    /\ lsPc[l] = "idle"
    /\ LsGoto(l, "root")
    /\ listing' = [listing EXCEPT ![l] = EmptyListing]
    /\ lsResult' = [lsResult EXCEPT ![l] = "none"]
    /\ lsKnown' = [lsKnown EXCEPT ![l] = {FpOf[d] : d \in acked}]
    /\ UNCHANGED <<vars, lsShards, lsFps, lsFp, lsTodo, stray>>

ReadRoot(l) ==
    /\ lsPc[l] = "root"
    /\ lsShards' = [lsShards EXCEPT ![l] = {ShardOf[f] : f \in fpDirs} \cup stray]
    /\ LsGoto(l, "shard")
    /\ UNCHANGED <<vars, lsFps, lsFp, lsTodo, listing, lsResult, stray, lsKnown>>

\* checkListResultsCap refuses.
ListCap(fps) == Cardinality(fps) > MaxListResults

\* requireHexDir refuses an entry of the shard.
HasStray(shard) == shard \in stray

\* One readdir of a shard, or, after the last, the cap on the results.
ReadShard(l) ==
    /\ lsPc[l] = "shard"
    /\ \/ \E s \in lsShards[l] :
            \/ /\ HasStray(s)
               /\ LsReturn(l, "malformedLibrary")
            \/ /\ ~HasStray(s)
               /\ lsShards' = [lsShards EXCEPT ![l] = @ \ {s}]
               /\ lsFps' = [lsFps EXCEPT ![l] =
                              @ \cup {f \in fpDirs : ShardOf[f] = s}]
               /\ UNCHANGED <<lsPc, lsFp, lsTodo, listing, lsResult>>
       \/ /\ lsShards[l] = {}
          /\ ListCap(lsFps[l])
          /\ LsReturn(l, "tooMany")
       \/ /\ lsShards[l] = {}
          /\ ~ListCap(lsFps[l])
          /\ LsGoto(l, "index")
          /\ UNCHANGED <<lsShards, lsFps, lsFp, lsTodo, listing, lsResult>>
    /\ UNCHANGED <<vars, stray, lsKnown>>

\* summarizeFingerprint: the next index.json, or the end of the listing.
ListIndex(l) ==
    /\ lsPc[l] = "index"
    /\ \/ /\ lsFps[l] = {}
          /\ LsReturn(l, "listed")
       \/ \E f \in lsFps[l] :
            \/ /\ Malformed(f)
               /\ LsReturn(l, "malformed")
            \/ /\ ~Malformed(f)
               /\ lsFps' = [lsFps EXCEPT ![l] = @ \ {f}]
               /\ lsFp' = [lsFp EXCEPT ![l] = f]
               /\ lsTodo' = [lsTodo EXCEPT ![l] = idx[f]]
               /\ LsGoto(l, "verify")
               /\ UNCHANGED <<lsShards, listing, lsResult>>
    /\ UNCHANGED <<vars, stray, lsKnown>>

\* Mutant: an entry whose occurrence does not verify is left out.
BugListVerify(l) ==
    /\ lsPc[l] = "verify"
    /\ \/ /\ lsTodo[l] = {}
          /\ LsGoto(l, "index")
          /\ UNCHANGED <<lsShards, lsFps, lsFp, lsTodo, listing, lsResult>>
       \/ \E d \in lsTodo[l] :
            /\ lsTodo' = [lsTodo EXCEPT ![l] = @ \ {d}]
            /\ listing' = IF Verifies(d)
                          THEN [listing EXCEPT ![l][lsFp[l]] = @ \cup {d}]
                          ELSE listing
            /\ UNCHANGED <<lsPc, lsShards, lsFps, lsFp, lsResult>>
    /\ UNCHANGED <<vars, stray, lsKnown>>

ListVerify(l) ==
    /\ lsPc[l] = "verify"
    /\ \/ /\ lsTodo[l] = {}
          /\ LsGoto(l, "index")
          /\ UNCHANGED <<lsShards, lsFps, lsFp, lsTodo, listing, lsResult>>
       \/ \E d \in lsTodo[l] :
            \/ /\ Verifies(d)
               /\ lsTodo' = [lsTodo EXCEPT ![l] = @ \ {d}]
               /\ listing' = [listing EXCEPT ![l][lsFp[l]] = @ \cup {d}]
               /\ UNCHANGED <<lsPc, lsShards, lsFps, lsFp, lsResult>>
            \/ /\ ~Verifies(d)
               /\ LsReturn(l, "corrupted")
    /\ UNCHANGED <<vars, stray, lsKnown>>

\* An I/O error, or the command timeout seen by one of the loops.
LsFails(l) ==
    /\ lsPc[l] # "idle"
    /\ LsReturn(l, "failed")
    /\ UNCHANGED <<vars, stray, lsKnown>>

LsNext ==
    \E l \in Listers :
        \/ LsBegin(l)
        \/ ReadRoot(l)
        \/ ReadShard(l)
        \/ ListIndex(l)
        \/ ListVerify(l)
        \/ LsFails(l)

\* Someone drops an unexpected entry into the library root or a shard.
DropStray ==
    /\ \E s \in Shards : stray' = stray \cup {s}
    /\ UNCHANGED <<vars, lsLocals, lsKnown>>

ListingInit == Init /\ LsInit

\* Next to adds, and to a second actor that damages occurrences and drops
\* stray entries.  Checks write nothing that a list reads.
ListingNext ==
    \/ LsNext
    \/ AddNext /\ UNCHANGED lsVars
    \/ (\E d \in Victims : TamperOccurrence(d)) /\ UNCHANGED lsVars
    \/ DropStray

ListingSpec == ListingInit /\ [][ListingNext]_allVars

-----------------------------------------------------------------------------
\* A listing that succeeds shows every fingerprint that was acknowledged
\* before it began, with at least one occurrence, although the walk and the
\* index reads interleave with adds that rewrite the same files and although
\* occurrences may be damaged meanwhile: a damaged one fails the listing.
AckedIsListed ==
    \A l \in Listers : lsResult[l] = "listed" =>
        \A f \in lsKnown[l] : listing[l][f] # {}

=============================================================================

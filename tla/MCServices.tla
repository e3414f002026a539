----------------------------- MODULE MCServices -----------------------------
(***************************************************************************)
(* One run for the parts of the program that share no state: which of them *)
(* moves is chosen at the start, the others rest.                          *)
(***************************************************************************)
EXTENDS SettingsStore, Doh, H2Lane, H2Streams, SearchPlan, WsBridge

VARIABLE which

Parts == {"store", "doh", "lane", "streams", "search", "bridge"}

(* A connection whose client sends nothing. *)
Idle == /\ splitter = NewSplitter("abridged") /\ packets = <<>> /\ BridgeBegins

ServicesInit == /\ which \in Parts
                /\ StoreInit /\ DohInit /\ LaneInit /\ StreamsInit /\ SearchInit
                /\ which # "doh" => ~prev
                /\ which = "search" <=> shown # <<>>     \* a search after an earlier one
                /\ world = CHOOSE c \in Conditions : TRUE \* whatever they are at the start
                /\ IF which = "bridge" THEN BridgeInit ELSE Idle

ServicesNext ==
    /\ UNCHANGED which
    /\ \/ which = "store" /\ StoreNext /\ UNCHANGED <<dohVars, laneVars, streamVars, searchVars, bridgeVars>>
       \/ which = "doh" /\ DohNext /\ UNCHANGED <<storeVars, laneVars, streamVars, searchVars, bridgeVars>>
       \/ which = "lane" /\ LaneNext /\ UNCHANGED <<storeVars, dohVars, streamVars, searchVars, bridgeVars>>
       \/ which = "streams" /\ StreamsNext /\ UNCHANGED <<storeVars, dohVars, laneVars, searchVars, bridgeVars>>
       \/ which = "search" /\ SearchNext /\ UNCHANGED <<storeVars, dohVars, laneVars, streamVars, bridgeVars>>
       \/ which = "bridge" /\ BridgeNext /\ UNCHANGED <<storeVars, dohVars, laneVars, streamVars, searchVars>>

ServicesVars == <<which, storeVars, dohVars, laneVars, streamVars, searchVars, bridgeVars>>
ServicesSpec == ServicesInit /\ [][ServicesNext]_ServicesVars

(* The type invariant of the part that moves. *)
ServicesTypeOK == CASE which = "store"   -> StoreTypeOK
                    [] which = "doh"     -> DohTypeOK
                    [] which = "lane"    -> LaneTypeOK
                    [] which = "streams" -> StreamsTypeOK
                    [] which = "search"  -> SearchTypeOK
                    [] which = "bridge"  -> BridgeTypeOK

Symmetry == Permutations(Channel)
-----------------------------------------------------------------------------
(* Packets of MTProto's transports: a length in words of four bytes or in bytes, and the
   payload; none is empty. *)
Filler(n) == [i \in 1..n |-> 1]

TransportPackets ==
    [abridged     |-> {<<1>> \o Filler(4), <<255, 1, 0, 0>> \o Filler(4)},
     intermediate |-> {<<2, 0, 0, 128>> \o Filler(2)}]

GarbagePackets ==
    [abridged     |-> {<<128>> \o Filler(2)},
     intermediate |-> {<<0, 0, 0, 128>> \o Filler(1)}]
=============================================================================

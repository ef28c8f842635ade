----------------------------- MODULE ServicesProofs -----------------------------
(***************************************************************************)
(* What is proved of each component holds of the composition: whichever    *)
(* component is in focus, a behaviour of all of them is one of each, since *)
(* a step of one leaves the variables of the others alone.                 *)
(***************************************************************************)
EXTENDS MCServices, StoreProofs, SessionProofs, ConnectionProofs

\* The first state is one of every component.
LEMMA ServicesStart ==
  ServicesInit =>
    /\ focus \in Components
    /\ MemoryInit /\ EventsInit /\ PackInit /\ GraphInit /\ HttpInit
    /\ ReviewInit /\ ReadInit /\ WorkInitInit /\ ChainInit /\ SeedInit
BY DEF ServicesInit

\* A step of the component in focus, or none, is one of every component.
LEMMA ServicesStep ==
  [ServicesNext]_servicesVars =>
    /\ UNCHANGED focus
    /\ [MemoryNext]_memoryVars /\ [EventsNext]_eventVars /\ [PackNext]_packVars
    /\ [GraphNext]_graphVars /\ [HttpNext]_httpVars /\ [ReviewNext]_reviewVars
    /\ [ReadNext]_readVars /\ [WorkInitNext]_workInitVars /\ [ChainNext]_chainVars
    /\ [SeedNext]_seedVars
<1>1. CASE UNCHANGED servicesVars
  BY <1>1 DEF servicesVars
<1>2. CASE ServicesNext
  BY <1>2 DEF ServicesNext, InFocus
<1>. QED BY <1>1, <1>2

\* Behaviours of the gateway's services are behaviours of each component: every
\* theorem about a component is one about the services.
THEOREM ServicesAreComponents ==
  ServicesSpec =>
    /\ MemorySpec /\ EventsSpec /\ PackSpec /\ GraphSpec /\ HttpSpec
    /\ ReviewSpec /\ ReadSpec /\ WorkInitSpec /\ ChainSpec /\ SeedSpec
BY ServicesStart, ServicesStep, PTL
   DEF ServicesSpec, MemorySpec, EventsSpec, PackSpec, GraphSpec, HttpSpec, ReviewSpec,
       ReadSpec, WorkInitSpec, ChainSpec, SeedSpec

\* The variables of every component keep to their types.
THEOREM ServicesTyped == ServicesSpec => []ServicesTypeOK
<1>1. ServicesSpec => [](focus \in Components)
  <2>1. ServicesInit => focus \in Components BY ServicesStart
  <2>2. focus \in Components /\ [ServicesNext]_servicesVars => (focus \in Components)'
    BY ServicesStep
  <2>. QED BY <2>1, <2>2, PTL DEF ServicesSpec
<1>2. ServicesSpec => []MemoryTypeOK
  BY ServicesAreComponents, MemoryTyped, PTL
<1>3. ServicesSpec => []EventsTypeOK
  BY ServicesAreComponents, EventsTyped, PTL
<1>4. ServicesSpec => []PackTypeOK
  BY ServicesAreComponents, PacksTyped, PTL
<1>5. ServicesSpec => []GraphTypeOK
  BY ServicesAreComponents, GraphTyped, PTL
<1>6. ServicesSpec => []HttpTypeOK
  BY ServicesAreComponents, HttpTyped, PTL
<1>7. ServicesSpec => []ReadTypeOK
  BY ServicesAreComponents, ReadTyped, PTL
<1>8. ServicesSpec => []WorkInitTypeOK
  BY ServicesAreComponents, WorkTyped, PTL
<1>9. ServicesSpec => []ChainTypeOK
  BY ServicesAreComponents, ChainTyped, PTL
<1>10. ServicesSpec => []SeedTypeOK
  BY ServicesAreComponents, SeedTyped, PTL
<1>11. ServicesSpec => []ReviewTypeOK
  BY ServicesAreComponents, ReviewTyped, PTL
<1>12. /\ focus \in Components
      /\ /\ MemoryTypeOK /\ EventsTypeOK /\ PackTypeOK /\ GraphTypeOK /\ HttpTypeOK
         /\ ReviewTypeOK /\ ReadTypeOK /\ WorkInitTypeOK /\ ChainTypeOK /\ SeedTypeOK
      => ServicesTypeOK
  BY DEF ServicesTypeOK
<1>. QED BY <1>1, <1>2, <1>3, <1>4, <1>5, <1>6, <1>7, <1>8, <1>9, <1>10, <1>11,
            <1>12, PTL
=============================================================================

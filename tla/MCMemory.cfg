SPECIFICATION MemorySpec
CONSTANTS
    Addr <- SomeAddr
    Sizes <- SomeSizes
    Domains = {d1, d2}
    MaxRef = 2
    MaxGen = 4
    Refs = {r1, r2, r3}
    Buffers = {b1, b2}
    Handles = {h1, h2, h3, h4}
SYMMETRY Symmetric
INVARIANTS
    IndexExact
    Disjoint
    LookupExact
    RRefSound
    AllocatorsSound
    PoolSound
    TablesExact
PROPERTIES
    AllocatorsImplement

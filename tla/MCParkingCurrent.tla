---------------------------- MODULE MCParkingCurrent ----------------------------
EXTENDS ParkingCurrent, TLC

\* KAC lists five lots or one other (fewer than a quarter), and may be late; Incheon does not vary.
MCPayload == [s \in Source |-> IF s = "kac_parking" THEN {1..5, {6}} ELSE {{1}}]
MCMaxLag == [s \in Source |-> IF s = "kac_parking" THEN 1 ELSE 0]

\* Processes are interchangeable.
MCSymmetry == Permutations(Proc)
================================================================================

-------------------------------- MODULE MCDisk --------------------------------
EXTENDS Disk

CONSTANTS data, logs, web, db

Unattached(size) == [Absent EXCEPT !.present = TRUE, !.size = size]
On(vm, device, size) == [Unattached(size) EXCEPT !.attach = TRUE, !.vm = vm, !.device = device]
Reattached(c) == [c EXCEPT !.reattach = TRUE]
Protected(c) == [c EXCEPT !.protected = TRUE]

\* The data disk changes its size, its device, its machine and its protection; the log
\* disk comes and goes on the same machine.
MCConfigs ==
  [k \in {data, logs} |->
     IF k = data
     THEN {On(web, 1, 1), On(web, 2, 1), Reattached(On(web, 1, 2)), On(db, NoDevice, 1), On(db, 2, 1),
           Protected(Unattached(2))}
     ELSE {On(web, NoDevice, 1), Unattached(1)}]

\* The user begins with both disks on one machine, or edits that before the first apply.
MCInit == Init /\ config[data] = On(web, 1, 1) /\ config[logs].attach
MCSpec == MCInit /\ [][Next]_vars /\ Fairness
=============================================================================

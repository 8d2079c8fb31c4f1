----------------------------- MODULE MCRrdUpdate -----------------------------
(* Instances of RrdUpdate for TLC: a tick is 15 seconds. *)
EXTENDS RrdUpdate

CONSTANTS disk, mem, db, slave, cache, volume

MCOffsets    == {-1, 0, 4}
MCAnyArchive == {Old, 0}
MCJumps      == {-4, 1, 3}

\* Three sets: a disk counter and the memory; MySQL with the slave's delay;
\* memcached and a volume.
MCLmps ==
    {<<[fn |-> "diskstats", src |-> disk], [fn |-> "meminfo", src |-> mem]>>,
     <<[fn |-> "mysqlgstatus", src |-> db, slave |-> slave,
        keys |-> <<"Questions", "Seconds_Behind_Master">>]>>,
     <<[fn |-> "memcached", src |-> cache, keys |-> <<"bytes", "threads">>],
       [fn |-> "freespace", src |-> volume]>>}
MCSources == {disk, mem, db, slave, cache, volume}
=============================================================================

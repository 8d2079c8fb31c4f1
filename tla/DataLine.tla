-------------------------------- MODULE DataLine --------------------------------
(***************************************************************************)
(* What the measure points of a record set write into one data line        *)
(* (the measure functions of qimeasure.cpp), and the columns the archive   *)
(* of the same collection set is created with (get_DSdef, qicollect.cpp).  *)
(* The line is positional: nothing in it says which column a value is for. *)
(*                                                                         *)
(* A measure point is a record: fn, the name it has in mmpcreators; src,   *)
(* the file or server it reads; for memcached and mysqlgstatus also keys,  *)
(* the variables in the order of the map mss or gvar, and for the latter   *)
(* slave, the query behind Seconds_Behind_Master.  A value is known by     *)
(* what it measures and by what it is: a number, "U" for unknown, or odd,  *)
(* nothing or "UU".  failing are the sources that cannot be read.          *)
(***************************************************************************)
EXTENDS Naturals, Sequences, SequencesExt

Value(p, of, is) == [of |-> <<p.src, of>>, is |-> is]
SourcesOf(p) == {p.src} \cup IF p.fn = "mysqlgstatus" THEN {p.slave} ELSE {}
\* A readable source gives a number, an unreadable one what the code says.
Read(p, of, failing, otherwise) ==
    Value(p, of, IF p.src \in failing THEN otherwise ELSE "number")

----------------------------------------------------------------------------
(* measure, one operator per class.                                        *)

\* The field is not found: measure returns false with an empty result, and
\* RecordSet::measure does not look at what it returns.
MPdiskstats(p, failing) == <<Read(p, p.fn, failing, "odd")>>
MPnetstats(p, failing)  == <<Read(p, p.fn, failing, "odd")>>

\* The line counters of MeasureFile too: one value, or "U".
MPloadavg(p, failing)   == <<Read(p, p.fn, failing, "U")>>
MPfilevalue(p, failing) == <<Read(p, p.fn, failing, "U")>>
MPfreespace(p, failing) == <<Read(p, p.fn, failing, "U")>>
\* Opens /proc/loadavg.
MPconncount(p, failing) == <<Read(p, "loadavg", failing, "U")>>

\* mutant: the order of an older list of names
MPmeminfoOlderOrder(p, failing) ==
    IF p.src \in failing THEN [i \in 1..5 |-> Value(p, "free", "U")]
    ELSE LET of == <<"free", "buffers", "used", "cached", "sw_used", "sw_free">>
         IN  [i \in DOMAIN of |-> Value(p, of[i], "number")]

\* /proc/meminfo cannot be opened: "U:U:U:U:U".
MPmeminfo(p, failing) ==
    IF p.src \in failing THEN [i \in 1..5 |-> Value(p, "free", "U")]
    ELSE LET of == <<"free", "buffers", "cached", "used", "sw_used", "sw_free">>
         IN  [i \in DOMAIN of |-> Value(p, of[i], "number")]

\* mutant: one value for a server that does not answer
MMemcachedOneU(p, failing) ==
    IF p.src \in failing THEN <<Value(p, p.keys[1], "U")>>
    ELSE [i \in DOMAIN p.keys |-> Value(p, p.keys[i], "number")]
MMemcached(p, failing) == [i \in DOMAIN p.keys |-> Read(p, p.keys[i], failing, "U")]

\* The rows of "show slave status" are fetched from the result of the other
\* query, which has not been asked yet.  mysql_fetch_row(NULL) is not defined:
\* a libmysqlclient that looks at its argument finds nothing, which is the
\* case here; any other ends the probe, and with it the lines.
SlaveStatus(p, failing) == IF p.slave \in failing THEN "U" ELSE "odd"

MMySQLGStatus(p, failing) ==
    LET read(key) ==
          CASE key # "Seconds_Behind_Master" -> Read(p, key, failing, "U")
            [] p.src \notin failing -> Value(p, key, SlaveStatus(p, failing))
            \* the status, followed by "U"
            [] OTHER -> Value(p, key, IF p.slave \in failing THEN "odd" ELSE "U")
    IN  [i \in DOMAIN p.keys |-> read(p.keys[i])]

Measured(p, failing) ==
    CASE p.fn = "diskstats"    -> MPdiskstats(p, failing)
      [] p.fn = "netstats"     -> MPnetstats(p, failing)
      [] p.fn = "filevalue"    -> MPfilevalue(p, failing)
      [] p.fn = "freespace"    -> MPfreespace(p, failing)
      [] p.fn = "conncount"    -> MPconncount(p, failing)
      [] p.fn = "meminfo"      -> MPmeminfo(p, failing)
      [] p.fn = "memcached"    -> MMemcached(p, failing)
      [] p.fn = "mysqlgstatus" -> MMySQLGStatus(p, failing)
      [] OTHER                 -> MPloadavg(p, failing)

\* The values of a line, after its name and timestamp.
Values(lmp, failing) == FlattenSeq([i \in DOMAIN lmp |-> Measured(lmp[i], failing)])

----------------------------------------------------------------------------
(* The columns.                                                            *)

\* get_nbpoints.
Nbpoints(p) ==
    CASE p.fn = "meminfo" -> 6
      [] p.fn \in {"memcached", "mysqlgstatus"} -> Len(p.keys)
      [] OTHER -> 1

Tagsub(p, i) ==
    CASE p.fn = "meminfo" ->
           <<"free", "buffers", "cached", "used", "sw_used", "sw_free">>[i]
      [] p.fn \in {"memcached", "mysqlgstatus"} -> p.keys[i]
      [] OTHER -> p.fn

DSdef(p)     == [i \in 1..Nbpoints(p) |-> <<p.src, Tagsub(p, i)>>]
Columns(lmp) == FlattenSeq([i \in DOMAIN lmp |-> DSdef(lmp[i])])

----------------------------------------------------------------------------
\* librrd takes a line with one value for each column; what it makes of an
\* odd value depends on its version.
Fits(values, columns) == Len(values) = Len(columns)
WellFormed(values)    == \A i \in DOMAIN values : values[i].is # "odd"
=============================================================================

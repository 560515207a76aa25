--------------------------- MODULE MCScudoRssLimit ---------------------------
(* Two allocating threads, soft limit 1MB, hard limit 2MB, in a unit where *)
(* a megabyte is 4 bytes and a page and a kilobyte 2: the RSS values are  *)
(* 0MB, exactly the soft limit, exactly the hard limit, and above it.     *)
EXTENDS ScudoRssLimit

MCThreads == {"t1", "t2"}
MCRssValues == {2, 6, 10, 14}
====

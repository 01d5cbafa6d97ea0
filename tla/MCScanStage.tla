----------------------------- MODULE MCScanStage -----------------------------
EXTENDS ScanStage

CONSTANTS site1, site2   \* one line of each of two files

MCFileOf == [s \in {site1, site2} |-> IF s = site1 THEN "file1" ELSE "file2"]
MCOneFile == [s \in {site1} |-> "file1"]

\* Rules that can meet on one line: two of Coccinelle that are in no mitigation
\* table, two of Semgrep that are, and detectors with and without a CVE.
MCCocciRules == <<"free_before_irq_sync", "io_uring_race">>
MCNoRules == << >>
MCSemgrepRules == {"racemap-io-uring-fixed-buffer-no-copy",
                   "racemap-io-uring-net-send-no-copy"}
MCRecognised == MCSemgrepRules

FixedBuffer == "io-uring-fixed-buffer-no-copy"
NetSend == "io-uring-net-send-no-copy"
DirtyPipe == "dirtypipe-can-merge-no-init"
MmapCopy == "mmap-copy-user-vma-race"

MCVisits == << <<site2, FixedBuffer>>, <<site1, FixedBuffer>>,
               <<site1, DirtyPipe>>, <<site1, MmapCopy>> >>
MCTwoVisits == << <<site1, FixedBuffer>>, <<site1, NetSend>> >>

MCCveOf == [r \in Rules |-> CASE r = DirtyPipe -> "CVE-2022-0847"
                              [] r = MmapCopy  -> "CVE-2022-2590"
                              [] OTHER         -> NoCve]
=============================================================================

--------------------------- MODULE DocumentPrints ---------------------------
(***************************************************************************)
(* PrintExport under names that PrintDraw leaves free: PrintProofs reasons *)
(* about both kinds of print operation.  TLC checks the export under these *)
(* names too.                                                              *)
(***************************************************************************)
CONSTANTS
    Exports,        \* Ops
    Windows,
    WindowOf,
    PageCount,      \* NPages
    Plans,
    Null            \* None

VARIABLES
    settings, accepted, place, temp_file, idle, sent, answers,
    export_queue,   \* print_queue
    window_queue,
    job_export,
    job_page,       \* page
    done,           \* finished
    stopped,        \* cancelled
    due,            \* reports
    queued,         \* waiting
    taken,          \* running
    exported,       \* drawn
    file, written, mispopped

PE == INSTANCE PrintExport WITH
        Ops <- Exports, NPages <- PageCount, None <- Null,
        print_queue <- export_queue, page <- job_page, finished <- done,
        cancelled <- stopped, reports <- due, waiting <- queued,
        running <- taken, drawn <- exported

ASSUME ExportsAssumption == PE!ParametersAssumption

ExportsSpec == PE!Spec

\* With the worker, the main loop and the print system scheduled.
FairExportsSpec == PE!FairSpec

\* What is written is what was asked for, see PrintExport.
OwnPagesAreAsAsked == PE!OwnPagesAreAsAsked

\* Pages of operations do not mix and none is lost or doubled, see PrintExport.
FilesAreInOrder == PE!FilesAreInOrder

\* Who can end an operation a second time, see PrintExport.
EndsAgainOnlyFromThePrinter == PE!EndsAgainOnlyFromThePrinter

\* Every accepted operation ends, see PrintExport.
EveryPrintEnds == PE!EveryPrintEnds

=============================================================================

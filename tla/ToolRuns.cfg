SPECIFICATION Spec
INVARIANTS ReportsReproduced FalseNegativeIsSafe LostToPointers ErrorMeansNoAnswer
CHECK_DEADLOCK FALSE

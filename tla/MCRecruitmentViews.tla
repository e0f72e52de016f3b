------------------------- MODULE MCRecruitmentViews -------------------------
EXTENDS RecruitmentViews

MCRecordCalls == RecordCalls
=============================================================================

------------------------------- MODULE MCCron --------------------------------
EXTENDS Cron, SmallCalendar
==============================================================================

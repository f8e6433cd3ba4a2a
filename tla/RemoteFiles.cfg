SPECIFICATION Spec
CONSTANTS
  Uploads = {u1}
  Writes = {t1}
  Workers = {1, 2}
  Owner = Owner
  None = None
  Lost = Lost
  Size = 2
  MaxOwner = 1
INVARIANTS Reservation PublishedWhole
PROPERTIES ReplacesOnlyWhatItSaw ReservationReturned
CHECK_DEADLOCK FALSE

----------------------------- MODULE AgeBuckets -----------------------------
(***************************************************************************)
(* The age ranges an answer is tagged with and the ranges clients can      *)
(* filter by (src/src/utils/BirthYearBucketer.cpp).  A label "20-29" is    *)
(* the pair of its numbers, the empty string the pair <<0, -1>>.           *)
(***************************************************************************)
EXTENDS Integers

NoBucket == <<0, -1>>

\* A form of bucketBirthYear that takes ages from one to the bucket's size.
bucketBirthYearShifted(birth_year, size, year) ==
  LET age == year - birth_year
      start == ((age - 1) \div size) * size IN
  IF size <= 0 \/ birth_year <= 1900 \/ birth_year > year THEN NoBucket
  ELSE <<start + 1, start + size>>

bucketBirthYear(birth_year, size, year) ==
  LET start == ((year - birth_year) \div size) * size IN
  IF size <= 0 \/ birth_year <= 1900 \/ birth_year > year THEN NoBucket
  ELSE <<start, start + size - 1>>

\* The ranges from 0 to max_age; the last one ends there.
age_bucket_labels(size, max_age) ==
  IF size <= 0 \/ max_age < 0 THEN {}
  ELSE {<<k * size, IF k * size + size - 1 <= max_age THEN k * size + size - 1
                                                      ELSE max_age>> :
          k \in 0..(max_age \div size)}

\* The default of age_bucket_labels' second parameter.
MaxAge == 119
=============================================================================
